---- MODULE Spec2Model ----
(***************************************************************************)
(* Streaming playback pipeline of remu-audio.                              *)
(*                                                                         *)
(*   HTTP stream -> Downloader task -> MVecBytesWrapper (chunk list)       *)
(*                      <- MVecBytesReader (blocking Read + Seek)          *)
(*                                                                         *)
(* Several specifications share the variables:                             *)
(*   SpecBuf       the wrapper and the reader driven call by call by a     *)
(*                 single thread (append_data, complete, read, seek);      *)
(*   SpecBufToken  SpecBuf with the cancellation token set at any time;    *)
(*   SpecBufWait   SpecBuf with the reads that wait for data;              *)
(*   SpecEquiv     an MVecU8Reader and an MVecBytesReader reading the same *)
(*                 input side by side;                                     *)
(*   SpecSeek      seek on a reader of either type, with the integer       *)
(*                 widths of the position and the offset;                  *)
(*   Spec          the caller thread (Downloader::download / abort,        *)
(*                 Player::clear), the spawned download task and the       *)
(*                 reader thread, interleaved at every lock acquisition,   *)
(*                 atomic load or store, condvar operation and await;      *)
(*   SpecTeardown  Spec with fairness for clear() and the task;            *)
(*   SpecDl        the Downloader used directly by two threads;            *)
(*   SpecLoadUrl   load_url with the decoder probing the reader on the     *)
(*                 caller thread;                                          *)
(*   SpecPlayer    the calls on a Player, each a whole call;               *)
(*   SpecPlayerVol SpecPlayer with set_volume among the calls;             *)
(*   SpecCallback  the callback slots of the Player and the threads that   *)
(*                 invoke what they hold.                                  *)
(* A byte of the stream is modelled by its 1-based index in the stream, so *)
(* every byte is distinct and loss, duplication or reordering shows.       *)
(***************************************************************************)
EXTENDS Integers, Sequences, FiniteSets, TLC

\* ---------------------------------------------------------------- bounds
\* SpecBuf: chunk_size ranges over 1..MaxChunkSize, one append_data slice has
\* 0..MaxSlice bytes, at most MaxBytes bytes are appended, a read buffer has
\* 0..MaxRead bytes and seek targets range over 0..MaxPos.
MaxChunkSize == 3
MaxSlice == 5
MaxBytes == 6
MaxRead == 4
MaxPos == 7
\* Spec: chunk_size ranges over 1..PipeChunkSize, one network chunk has
\* 0..NetSlice bytes, the body has at most NetBytes bytes, a read buffer has
\* 1..PipeRead bytes and seek targets range over 0..PipePos.
PipeChunkSize == 2
NetSlice == 2
NetBytes == 2
PipeRead == 2
PipePos == 2
\* SpecPlayer: at most MaxOps calls are made on the Player.
MaxOps == 3
\* SpecCallback: at most MaxSets callbacks are installed and at most
\* MaxDeliveries events are delivered.
MaxSets == 2
MaxDeliveries == 3
\* SpecSeek: the position is an unsigned integer of PosBits bits and a seek
\* offset a signed one (u64 and i64 in the code), and at most SeekBytes
\* bytes are appended.
PosBits == 3
SeekBytes == 2

VARIABLES
    \* MVecBytesWrapper
    chunk_size, data, completed, current_chunk,
    \* MVecBytesReader
    pos, cancelled, rPc, rN, rRet, rPos0, rSeen, rWaited,
    \* history: bytes handed to append_data before complete(), last operation
    input, lastOp,
    \* Downloader
    status, should_abort, download_called, download_completed, thread_handle,
    total_bytes, downloaded_bytes, callback, events,
    \* the spawned download task: position, current chunk_result, whether
    \* JoinHandle::abort was called on it
    tPc, tItem, taskAborted,
    \* the caller thread (Downloader API and Player::clear)
    cPc,
    \* owner of every mutex / rwlock
    lock,
    \* chunk slots reserved on the chunk list by set_capacity
    reserved,
    \* a second thread on the Downloader API: position, what abort() returned
    aPc, abortRet,
    \* Player: the struct, the events its callback received, the position of
    \* the thread inside load, the source being loaded, the local
    \* previous_duration of clear(), the calls made so far
    player, playerEvents, pPc, pSrc, previous_duration, hist,
    \* the pipelines (Downloader, token, condvar) of sources that a load_url
    \* replaced, as clear() left them
    retired,
    \* the last seek on a reader: the call and what it returned
    seekCall, seekRet,
    \* history: the network chunks the task appended after abort() had
    \* returned Ok or Drop for Downloader had run
    lateAppends,
    \* the callback slots of the Player: what each holds, the invocations in
    \* flight, the sentinel of the sink, the last delivery
    cbState,
    \* an MVecU8Wrapper with its MVecU8Reader fed the slices the chunked
    \* wrapper is fed, and what the sequential reads of either reader have
    \* returned so far
    seqRead

bufVars == <<chunk_size, data, completed, current_chunk>>
rdVars == <<pos, cancelled, rPc, rN, rRet, rPos0, rSeen, rWaited>>
histVars == <<input, lastOp>>
dlVars == <<status, should_abort, download_called, download_completed,
            thread_handle, total_bytes, downloaded_bytes, callback, events>>
taskVars == <<tPc, tItem, taskAborted>>
pipeVars == <<dlVars, taskVars, cPc, lock>>
apiVars == <<aPc, abortRet>>
playerVars == <<player, playerEvents, pPc, pSrc, previous_duration, hist,
                retired>>
seekVars == <<seekCall, seekRet>>
extVars == <<reserved, apiVars, playerVars, seekVars, lateAppends, cbState, seqRead>>
vars == <<bufVars, rdVars, histVars, pipeVars, extVars>>

\* ---------------------------------------------------------------- helpers
Min(a, b) == IF a <= b THEN a ELSE b

\* Rust slice s[a..b]: 0-based, half-open.
Slice(s, a, b) == SubSeq(s, a + 1, b)

RECURSIVE Flatten(_)
Flatten(chunks) ==
    IF chunks = <<>> THEN <<>> ELSE Head(chunks) \o Flatten(Tail(chunks))

\* The next len bytes of the stream after the first sent bytes.
StreamBytes(sent, len) == [i \in 1..len |-> sent + i]

\* ------------------------------------------------------- MVecBytesWrapper
\* The `while offset + chunk_size <= slice.len()` loop of append_data: pushes
\* the full chunks of slice from offset on, returns them and the final offset.
RECURSIVE SplitFull(_, _, _, _)
SplitFull(slice, offset, cs, acc) ==
    IF offset + cs <= Len(slice)
    THEN SplitFull(slice, offset + cs, cs,
                   Append(acc, Slice(slice, offset, offset + cs)))
    ELSE [chunks |-> acc, offset |-> offset]

\* append_data with the `offset += first_part_len` of the overflow branch
\* left out: the split restarts at the head of the slice.
AppendDataNoOffset(cs, d, cur, comp, slice) ==
    IF comp THEN [data |-> d, current_chunk |-> cur]
    ELSE LET current_chunk_len == Len(cur) IN
         IF current_chunk_len + Len(slice) <= cs
         THEN LET filled == cur \o slice IN
              IF Len(filled) = cs
              THEN [data |-> Append(d, filled), current_chunk |-> <<>>]
              ELSE [data |-> d, current_chunk |-> filled]
         ELSE LET first_part_len ==
                      IF current_chunk_len # 0 THEN cs - current_chunk_len ELSE 0
                  first ==
                      IF current_chunk_len # 0
                      THEN <<cur \o Slice(slice, 0, first_part_len)>>
                      ELSE <<>>
                  sp == SplitFull(slice, 0, cs, first)
                  cur2 == IF sp.offset < Len(slice)
                          THEN Slice(slice, sp.offset, Len(slice))
                          ELSE <<>>
              IN [data |-> d \o sp.chunks, current_chunk |-> cur2]

\* append_data(slice) with the completed check left out (and the slice
\* never split).
AppendDataNoGuard(cs, d, cur, comp, slice) ==
    IF Len(cur) + Len(slice) < cs
    THEN [data |-> d, current_chunk |-> cur \o slice]
    ELSE [data |-> Append(d, cur \o slice), current_chunk |-> <<>>]

\* append_data(slice) on a wrapper with chunk list d, tail cur, flag comp:
\* the chunk list and the tail afterwards.
AppendData(cs, d, cur, comp, slice) ==
    IF comp THEN [data |-> d, current_chunk |-> cur]
    ELSE LET current_chunk_len == Len(cur) IN
         IF current_chunk_len + Len(slice) <= cs
         THEN LET filled == cur \o slice IN
              IF Len(filled) = cs
              THEN [data |-> Append(d, filled), current_chunk |-> <<>>]
              ELSE [data |-> d, current_chunk |-> filled]
         ELSE LET first_part_len ==
                      IF current_chunk_len # 0 THEN cs - current_chunk_len ELSE 0
                  first ==
                      IF current_chunk_len # 0
                      THEN <<cur \o Slice(slice, 0, first_part_len)>>
                      ELSE <<>>
                  cur1 == IF current_chunk_len # 0 THEN <<>> ELSE cur
                  sp == SplitFull(slice, first_part_len, cs, first)
                  cur2 == IF sp.offset < Len(slice)
                          THEN cur1 \o Slice(slice, sp.offset, Len(slice))
                          ELSE <<>>
              IN [data |-> d \o sp.chunks, current_chunk |-> cur2]

\* Whether append_data(slice) locks the chunk list (it does only to push).
AppendLocks(cs, cur, comp, slice) ==
    /\ ~comp
    /\ Len(cur) + Len(slice) >= cs

\* complete() with the frozen tail put in front of the chunk list.
CompletePushFront(d, cur) ==
    IF Len(cur) > 0
    THEN [data |-> <<cur>> \o d, current_chunk |-> <<>>]
    ELSE [data |-> d, current_chunk |-> cur]

\* The push of complete(): the non-empty tail is frozen and pushed.
CompletePush(d, cur) ==
    IF Len(cur) > 0
    THEN [data |-> Append(d, cur), current_chunk |-> <<>>]
    ELSE [data |-> d, current_chunk |-> cur]

\* -------------------------------------------------------- MVecBytesReader
\* The loop condition of read: the position is at or beyond what the chunk
\* count says has been produced.
MustWait(p, d, cs) == p >= Len(d) * cs

\* The start-chunk copy with the start offset ignored.
StartPartFromZero(start_chunk, chunk_start_offset) ==
    Slice(start_chunk, 0, Len(start_chunk) - chunk_start_offset)

\* The copy out of the start chunk when the range spans several chunks.
StartPart(start_chunk, chunk_start_offset) ==
    Slice(start_chunk, chunk_start_offset, Len(start_chunk))

\* The copy of the middle chunks, in order.
CopyMiddle(middle_chunks) == Flatten(middle_chunks)

\* The part of read after the wait loop: picks the start, middle and end
\* chunks and copies. "panic" stands for the arithmetic-overflow or
\* slice-index panic of the Rust code (a wrapped length always fails the
\* slice bound that follows it, so both build profiles panic).
ReadCopy(d, cs, p, n) ==
    LET chunk_start_idx == p \div cs
        chunk_start_offset == p % cs
        capped == (p + n) \div cs >= Len(d)
        chunk_end_idx == IF capped THEN Len(d) ELSE (p + n) \div cs
        chunk_end_offset == IF capped THEN 0 ELSE (p + n) % cs
        start_chunk == d[chunk_start_idx + 1]
        middle_chunks ==
            IF chunk_end_idx - chunk_start_idx > 1
            THEN SubSeq(d, chunk_start_idx + 2, chunk_end_idx)
            ELSE <<>>
        has_end == chunk_end_idx > chunk_start_idx /\ chunk_end_offset > 0
    IN IF chunk_start_idx = chunk_end_idx
       THEN LET len == Min(chunk_end_offset, Len(start_chunk)) - chunk_start_offset IN
            IF len < 0 \/ len > n \/ chunk_start_offset + len > Len(start_chunk)
            THEN [kind |-> "panic", bytes |-> <<>>]
            ELSE [kind |-> "ok",
                  bytes |-> Slice(start_chunk, chunk_start_offset,
                                  chunk_start_offset + len)]
       ELSE LET len1 == Len(start_chunk) - chunk_start_offset
                part1 == StartPart(start_chunk, chunk_start_offset)
                part2 == CopyMiddle(middle_chunks)
                part3 == IF has_end
                         THEN LET end_chunk == d[chunk_end_idx + 1] IN
                              Slice(end_chunk, 0,
                                    Min(chunk_end_offset, Len(end_chunk)))
                         ELSE <<>>
            IN IF len1 < 0 \/ Len(part1) + Len(part2) + Len(part3) > n
               THEN [kind |-> "panic", bytes |-> <<>>]
               ELSE [kind |-> "ok", bytes |-> part1 \o part2 \o part3]

\* read(buf) that returns Ok(0) where the code waits.
ReadOutcomeNoWait(d, cs, comp, canc, p, n) ==
    IF MustWait(p, d, cs)
    THEN [kind |-> "ok", bytes |-> <<>>]
    ELSE ReadCopy(d, cs, p, n)

\* A whole read(buf) with buf.len() = n when no other thread runs: "block"
\* is the condvar wait that nothing would end.
ReadOutcome(d, cs, comp, canc, p, n) ==
    IF MustWait(p, d, cs)
    THEN IF comp \/ canc
         THEN [kind |-> "ok", bytes |-> <<>>]
         ELSE [kind |-> "block", bytes |-> <<>>]
    ELSE ReadCopy(d, cs, p, n)

\* What the deciding step of a read saw of the buffer.
Seen(d, comp) == [produced |-> Len(Flatten(d)), completed |-> comp]

NoRet == [kind |-> "none", bytes |-> <<>>]
NoSeen == [produced |-> 0, completed |-> FALSE]
NoItem == [kind |-> "none", bytes |-> <<>>]

\* ----------------------------------------------------------------- Player
\* Option<T>
None == <<>>
Some(x) == <<x>>

\* Sink::connect_new(..), followed by sink.pause() when paused. queue is what
\* the sink has still to play; loaded says a source was appended to this
\* sink, reached that its sentinel was reached, and seek is what its last
\* try_seek returned. A new sink plays at full volume (1.0).
NewSink(paused) ==
    [paused |-> paused, queue |-> <<>>, loaded |-> FALSE, reached |-> FALSE,
     seek |-> "none", volume |-> "full"]

\* Player::new
PlayerNew ==
    [control |-> [sink |-> NewSink(TRUE), duration |-> None],
     loader |-> FALSE,
     condvar |-> FALSE,
     cancellation_token |-> FALSE,
     callback |-> FALSE,
     empty |-> TRUE,
     ended |-> FALSE,
     autoplay |-> FALSE]

\* Player::emit
EmitPlayer(p, evs, event) == IF p.callback THEN Append(evs, event) ELSE evs

\* clear() with the new sink left playing.
ClearControlUnpaused(p) ==
    [p EXCEPT !.control = [sink |-> NewSink(FALSE), duration |-> None]]

\* clear(): the old sink is stopped, the control gets a new sink (paused
\* unless autoplay) and no duration
ClearControl(p) ==
    [p EXCEPT !.control = [sink |-> NewSink(~p.autoplay), duration |-> None]]

\* clear(): self.loader = None
ClearLoader(p) == [p EXCEPT !.loader = FALSE]

\* clear(): self.cancellation_token.take()
ClearToken(p) == [p EXCEPT !.cancellation_token = FALSE]

\* clear(): self.condvar.take()
ClearCondvar(p) == [p EXCEPT !.condvar = FALSE]

\* clear(): ended := false; empty := true when it was false
ClearFlags(p) == [p EXCEPT !.ended = FALSE, !.empty = TRUE]

\* The events of clear() with DurationChange sent first.
ClearEmitDurationFirst(p, prev, evs) ==
    LET e1 == IF prev # None
              THEN EmitPlayer(p, evs, "DurationChange") ELSE evs
    IN IF ~p.empty THEN EmitPlayer(p, e1, "Emptied") ELSE e1

\* The events of clear() with the DurationChange left out.
ClearEmitNoDuration(p, prev, evs) ==
    IF ~p.empty THEN EmitPlayer(p, evs, "Emptied") ELSE evs

\* clear(): Emptied when the player was not empty, then DurationChange when
\* the duration prev taken from the old control was known
ClearEmit(p, prev, evs) ==
    LET e1 == IF ~p.empty THEN EmitPlayer(p, evs, "Emptied") ELSE evs
    IN IF prev # None
       THEN EmitPlayer(p, e1, "DurationChange") ELSE e1

\* clear() as one call: the Player and its event log afterwards
Clear(p, evs) ==
    [player |-> ClearFlags(ClearCondvar(ClearToken(ClearLoader(ClearControl(p))))),
     events |-> ClearEmit(p, p.control.duration, evs)]

\* The head of a load_* with the clear left out.
ClearIfLoadedNever(p, evs) == [player |-> p, events |-> evs]

\* `if !self.empty() { self.clear(); }` at the head of every load_*
ClearIfLoaded(p, evs) ==
    IF ~p.empty THEN Clear(p, evs) ELSE [player |-> p, events |-> evs]

\* load() with the empty flag left as it was.
LoadFlagKept(p) == p

\* load(): empty := false (the clear before it never runs: every load_*
\* has cleared already)
LoadFlag(p) == [p EXCEPT !.empty = FALSE]

\* load(): control.duration = source.total_duration()
LoadDuration(p, total_duration) == [p EXCEPT !.control.duration = total_duration]

\* The events of load() with LoadedData sent before LoadedMetadata.
LoadEmitDataFirst(p, evs) ==
    EmitPlayer(p, EmitPlayer(p, EmitPlayer(p, evs, "DurationChange"),
                             "LoadedData"), "LoadedMetadata")

\* load(): DurationChange, LoadedMetadata, LoadedData
LoadEmit(p, evs) ==
    EmitPlayer(p, EmitPlayer(p, EmitPlayer(p, evs, "DurationChange"),
                             "LoadedMetadata"), "LoadedData")

\* load(): sink.append(source), sink.append(EmptyCallback)
LoadAppend(p) ==
    [p EXCEPT !.control.sink.queue = @ \o <<"source", "sentinel">>,
              !.control.sink.loaded = TRUE]

\* load_url(): condvar, loader and cancellation_token are kept after load()
LoadStore(p) ==
    [p EXCEPT !.condvar = TRUE, !.loader = TRUE, !.cancellation_token = TRUE]

\* The EmptyCallback closure appended by load(): ended := true inside
\* `if let Some(ref cb) = *callback.read()`
Sentinel(p) == IF p.callback THEN [p EXCEPT !.ended = TRUE] ELSE p

\* ------------------------------------------------------------ initial state
Locks == {"data", "chunks", "status", "handle", "callback", "control"}

\* MVecBytesWrapper::new, MVecBytesReader::new
InitWrapper ==
    /\ data = <<>>
    /\ completed = FALSE
    /\ current_chunk = <<>>
    /\ pos = 0
    /\ cancelled = FALSE
    /\ rPc = "idle"
    /\ rN = 0
    /\ rRet = NoRet
    /\ rPos0 = 0
    /\ rSeen = NoSeen
    /\ rWaited = FALSE
    /\ input = <<>>
    /\ lastOp = "new"
    /\ reserved = 0

\* The two callback slots of a new Player hold None, nothing is being
\* invoked, the sink holds no sentinel and nothing was delivered. A callback
\* is known by the number of the set_callback / set_loader_callback call
\* that installed it.
Slots == {"callback", "loader_callback"}
Emitters == {"owner", "audio", "task"}
NoRun == [cb |-> 0, event |-> "none"]
NoDelivery == [slot |-> "none", event |-> "none", cb |-> 0, appended_at |-> 0]
NoCallbacks ==
    [slot |-> [s \in Slots |-> 0],
     run |-> [t \in Emitters |-> NoRun],
     sets |-> 0,
     sentinel |-> -1,
     ended |-> FALSE,
     deliveries |-> 0,
     last |-> NoDelivery]

\* MVecU8Wrapper::new and MVecU8Reader::new: an empty Vec, completed false,
\* position 0, a token of its own; nothing read yet by either reader
NoSeqRead ==
    [data |-> <<>>, completed |-> FALSE, pos |-> 0, cancelled |-> FALSE,
     ret |-> NoRet, out |-> <<>>, eof |-> FALSE,
     bytesOut |-> <<>>, bytesEof |-> FALSE]

\* Downloader::new; the callback slot is empty, or was filled through
\* handle_message before download() (as Player::load_url does)
InitDownloader ==
    /\ status = "NotStarted"
    /\ should_abort = FALSE
    /\ download_called = FALSE
    /\ download_completed = FALSE
    /\ thread_handle = FALSE
    /\ total_bytes = 0
    /\ downloaded_bytes = 0
    /\ callback \in BOOLEAN
    /\ events = <<>>
    /\ tPc = "none"
    /\ tItem = NoItem
    /\ taskAborted = FALSE
    /\ lateAppends = 0
    /\ cbState = NoCallbacks
    /\ seqRead = NoSeqRead
    /\ cPc = "new"
    /\ lock = [l \in Locks |-> "free"]

\* No other thread has called into the Downloader yet.
NoAbortRet == [kind |-> "none", status |-> "none"]

InitApi ==
    /\ aPc = "idle"
    /\ abortRet = NoAbortRet

\* No seek was made on the reader yet (reader says which of the two reader
\* types the calls are made on, checks whether the build that ran the call
\* has overflow checks).
NoSeekCall ==
    [reader |-> "MVecBytesReader", from |-> "none", arg |-> 0, pos |-> 0,
     checks |-> FALSE]
NoSeekRet == [kind |-> "none", value |-> 0]

InitSeek ==
    /\ seekCall = NoSeekCall
    /\ seekRet = NoSeekRet

NoSrc == [op |-> "none", arg |-> "none", total_duration |-> None, url |-> FALSE]

\* Player::new; nothing has been called on the Player
InitPlayer ==
    /\ player = PlayerNew
    /\ playerEvents = <<>>
    /\ pPc = "idle"
    /\ pSrc = NoSrc
    /\ previous_duration = None
    /\ hist = <<>>
    /\ retired = <<>>
    /\ InitSeek

\* ------------------------------------------------------------------ SpecBuf
InitBuf ==
    /\ chunk_size \in 1..MaxChunkSize
    /\ InitWrapper
    /\ InitDownloader
    /\ ~callback
    /\ InitApi
    /\ InitPlayer

\* wrapper.append_data(slice)
BufAppend ==
    \E len \in 0..MaxSlice :
        /\ Len(input) + len <= MaxBytes
        /\ LET slice == StreamBytes(Len(input), len)
               r == AppendData(chunk_size, data, current_chunk, completed, slice)
           IN /\ data' = r.data
              /\ current_chunk' = r.current_chunk
              /\ input' = IF completed THEN input ELSE input \o slice
        /\ lastOp' = "append"
        /\ UNCHANGED <<extVars, chunk_size, completed, rdVars, pipeVars>>

\* wrapper.complete()
BufComplete ==
    /\ LET r == CompletePush(data, current_chunk) IN
          /\ data' = r.data
          /\ current_chunk' = r.current_chunk
    /\ completed' = TRUE
    /\ lastOp' = "complete"
    /\ UNCHANGED <<extVars, chunk_size, rdVars, input, pipeVars>>

\* reader.read(buf), buf.len() = n, for a call that returns or panics
BufRead ==
    \E n \in 0..MaxRead :
        LET r == ReadOutcome(data, chunk_size, completed, cancelled, pos, n) IN
        /\ rPc = "idle"
        /\ r.kind # "block"
        /\ rN' = n
        /\ rPos0' = pos
        /\ rSeen' = Seen(data, completed)
        /\ rRet' = r
        /\ pos' = pos + Len(r.bytes)
        /\ rPc' = IF r.kind = "panic" THEN "panicked" ELSE "idle"
        /\ lastOp' = "read"
        /\ UNCHANGED <<extVars, bufVars, cancelled, rWaited, input, pipeVars>>

\* reader.seek(SeekFrom::Start(p))
BufSeekStart ==
    \E p \in 0..MaxPos :
        /\ rPc = "idle"
        /\ pos' = p
        /\ lastOp' = "seek"
        /\ UNCHANGED <<extVars, bufVars, cancelled, rPc, rN, rRet, rPos0, rSeen, rWaited,
                       input, pipeVars>>

NextBuf == BufAppend \/ BufComplete \/ BufRead \/ BufSeekStart

SpecBuf == InitBuf /\ [][NextBuf]_vars

\* ------------------------------------------------------ claims over SpecBuf
\* C3 (chunking law): at every moment every chunk of the chunk list except
\* possibly the last has exactly chunk_size bytes, and once complete() has
\* run the concatenation of the chunks is the concatenation of the slices
\* that were appended.
C3_ChunkingLaw ==
    /\ \A i \in 1..(Len(data) - 1) : Len(data[i]) = chunk_size
    /\ completed => Flatten(data) = input

\* A completed buffer of at least three chunks whose last chunk is short.
C3_Witness ==
    /\ completed
    /\ Len(data) >= 3
    /\ Len(data[Len(data)]) < chunk_size
    /\ Flatten(data) = input

\* C4 (reader fidelity): a read that starts at a position p below the
\* produced bytes with a destination of n bytes returns k <= n bytes, they
\* are bytes [p, p+k) of the stream, and the position afterwards is p+k.
C4_ReaderFidelity ==
    (lastOp = "read" /\ rPos0 < rSeen.produced) =>
        /\ rRet.kind = "ok"
        /\ Len(rRet.bytes) <= rN
        /\ rRet.bytes = SubSeq(input, rPos0 + 1, rPos0 + Len(rRet.bytes))
        /\ pos = rPos0 + Len(rRet.bytes)

\* A read that starts inside a chunk, copies a whole middle chunk and ends
\* with the short final chunk of a completed buffer.
C4_Witness ==
    /\ lastOp = "read"
    /\ rRet.kind = "ok"
    /\ chunk_size >= 2
    /\ rPos0 % chunk_size # 0
    /\ Len(rRet.bytes) >= chunk_size + 2
    /\ rSeen.completed
    /\ rSeen.produced % chunk_size # 0
    /\ pos = rSeen.produced

\* C5 (reader EOF): a read on a completed buffer at a position at or beyond
\* the produced bytes returns Ok(0) and leaves the position unchanged.
C5_ReaderEOF ==
    (lastOp = "read" /\ rSeen.completed /\ rPos0 >= rSeen.produced) =>
        /\ rRet = [kind |-> "ok", bytes |-> <<>>]
        /\ pos = rPos0

\* ----------------------------------------------------------------- SpecSeek
\* Seek on a reader of either type, on a buffer that grows. Positions and
\* offsets keep their width: the position is unsigned, the offset signed.
PosValues == 0..(2^PosBits - 1)
OffsetValues == (-(2^(PosBits - 1)))..(2^(PosBits - 1) - 1)

\* `x as i64` of an unsigned x
AsSigned(x) == IF x >= 2^(PosBits - 1) THEN x - 2^PosBits ELSE x

\* `x as u64` of a signed x
AsUnsigned(x) == x % (2^PosBits)

\* `self.pos as i64 + off`: with overflow checks the sum panics when it does
\* not fit the signed type, without them it wraps
SignedAdd(a, off, checks) ==
    LET sum == a + off IN
    IF sum \in OffsetValues THEN [kind |-> "Ok", value |-> sum]
    ELSE IF checks THEN [kind |-> "panic", value |-> 0]
    ELSE [kind |-> "Ok", value |-> AsSigned(AsUnsigned(sum))]

\* seek() with End(off) taken as an offset from position 0.
SeekEndFromZero(p, from, arg, checks) ==
    CASE from = "Start" -> [kind |-> "Ok", value |-> arg, pos |-> arg]
      [] from = "Current" ->
           LET r == SignedAdd(AsSigned(p), arg, checks) IN
           IF r.kind = "panic" THEN [kind |-> "panic", value |-> 0, pos |-> p]
           ELSE [kind |-> "Ok", value |-> AsUnsigned(r.value),
                 pos |-> AsUnsigned(r.value)]
      [] from = "End" ->
           [kind |-> "Ok", value |-> AsUnsigned(arg), pos |-> AsUnsigned(arg)]

\* MVecBytesReader::seek at position p: what it returns and the position
\* afterwards
Seek(p, from, arg, checks) ==
    CASE from = "Start" -> [kind |-> "Ok", value |-> arg, pos |-> arg]
      [] from = "Current" ->
           LET r == SignedAdd(AsSigned(p), arg, checks) IN
           IF r.kind = "panic" THEN [kind |-> "panic", value |-> 0, pos |-> p]
           ELSE [kind |-> "Ok", value |-> AsUnsigned(r.value),
                 pos |-> AsUnsigned(r.value)]
      [] from = "End" -> [kind |-> "Unsupported", value |-> 0, pos |-> p]

\* MVecU8Reader::seek at position p
SeekU8(p, from, arg, checks) ==
    CASE from = "Start" -> [kind |-> "Ok", value |-> arg, pos |-> arg]
      [] from = "Current" ->
           LET r == SignedAdd(AsSigned(p), arg, checks) IN
           IF r.kind = "panic" THEN [kind |-> "panic", value |-> 0, pos |-> p]
           ELSE [kind |-> "Ok", value |-> AsUnsigned(r.value),
                 pos |-> AsUnsigned(r.value)]
      [] from = "End" -> [kind |-> "Unsupported", value |-> 0, pos |-> p]

Readers == {"MVecBytesReader", "MVecU8Reader"}

\* A reader of either type over a new wrapper
InitSeekSpec ==
    /\ chunk_size = PipeChunkSize
    /\ InitWrapper
    /\ InitDownloader
    /\ ~callback
    /\ InitApi
    /\ player = PlayerNew
    /\ playerEvents = <<>>
    /\ pPc = "idle"
    /\ pSrc = NoSrc
    /\ previous_duration = None
    /\ hist = <<>>
    /\ retired = <<>>
    /\ seekCall \in {[NoSeekCall EXCEPT !.reader = r] : r \in Readers}
    /\ seekRet = NoSeekRet

\* reader.seek(pos) as one call; a panic leaves the thread dead
SeekCallOn(from, arg, checks) ==
    LET r == IF seekCall.reader = "MVecBytesReader"
             THEN Seek(pos, from, arg, checks)
             ELSE SeekU8(pos, from, arg, checks)
    IN /\ seekCall' = [reader |-> seekCall.reader, from |-> from, arg |-> arg,
                       pos |-> pos, checks |-> checks]
       /\ seekRet' = [kind |-> r.kind, value |-> r.value]
       /\ pos' = r.pos
       /\ rPc' = IF r.kind = "panic" THEN "panicked" ELSE "idle"
       /\ lastOp' = "seek"
       /\ UNCHANGED <<reserved, apiVars, playerVars, lateAppends, cbState, seqRead, bufVars,
                      cancelled, rN, rRet, rPos0, rSeen, rWaited, input,
                      pipeVars>>

\* seek(SeekFrom::Start(p))
ReaderSeekStart ==
    /\ rPc = "idle"
    /\ \E p \in PosValues : SeekCallOn("Start", p, FALSE)

\* seek(SeekFrom::Current(off)), in a build with or without overflow checks
ReaderSeekCurrent ==
    /\ rPc = "idle"
    /\ \E off \in OffsetValues, checks \in BOOLEAN :
           SeekCallOn("Current", off, checks)

\* seek(SeekFrom::End(off))
ReaderSeekEnd ==
    /\ rPc = "idle"
    /\ \E off \in OffsetValues : SeekCallOn("End", off, FALSE)

\* The wrapper behind the reader gets one more byte.
SeekAppend ==
    /\ Len(input) < SeekBytes
    /\ LET slice == StreamBytes(Len(input), 1)
           r == AppendData(chunk_size, data, current_chunk, completed, slice)
       IN /\ data' = r.data
          /\ current_chunk' = r.current_chunk
          /\ input' = input \o slice
    /\ lastOp' = "append"
    /\ UNCHANGED <<extVars, chunk_size, completed, rdVars, pipeVars>>

NextSeek == ReaderSeekStart \/ ReaderSeekCurrent \/ ReaderSeekEnd \/ SeekAppend

SpecSeek == InitSeekSpec /\ [][NextSeek]_vars

\* C28 (seek round trip): seek(Start(n)) returns n and leaves the position
\* at n; seek(Current(d)) at position p with p + d a position returns p + d
\* and leaves the position at p + d, as seek(Start(p + d)) does; whatever
\* has been produced.
C28_SeekRoundTrip ==
    lastOp = "seek" =>
        /\ seekCall.from = "Start" =>
               (seekRet = [kind |-> "Ok", value |-> seekCall.arg] /\ pos = seekCall.arg)
        /\ (seekCall.from = "Current" /\ seekCall.pos + seekCall.arg \in PosValues) =>
               /\ seekRet = [kind |-> "Ok", value |-> seekCall.pos + seekCall.arg]
               /\ pos = seekCall.pos + seekCall.arg

\* C29 (seek from the end): on either reader seek(End(off)) fails with
\* Unsupported for every offset and leaves the position where it was.
C29_SeekEndUnsupported ==
    (lastOp = "seek" /\ seekCall.from = "End") =>
        /\ seekRet = [kind |-> "Unsupported", value |-> 0]
        /\ pos = seekCall.pos
        /\ rPc = "idle"

\* seek(End(off)) with a negative offset, on a reader that stands beyond
\* the only byte produced.
C29_Witness ==
    /\ lastOp = "seek"
    /\ seekCall.from = "End"
    /\ seekCall.arg < 0
    /\ seekRet.kind = "Unsupported"
    /\ Len(input) = 1
    /\ pos > 1

\* ------------------------------------------------------------- SpecBufToken
\* SpecBuf with the reader's cancellation token: the thread may cancel it
\* between two calls, after which a read that would wait returns 0.
\* reader.cancellation_token().cancel()
BufCancel ==
    /\ rPc = "idle"
    /\ cancelled' = TRUE
    /\ lastOp' = "cancel"
    /\ UNCHANGED <<extVars, bufVars, pos, rPc, rN, rRet, rPos0, rSeen, rWaited,
                   input, pipeVars>>

NextBufToken == NextBuf \/ BufCancel

SpecBufToken == InitBuf /\ [][NextBufToken]_vars

\* C27 (read returns zero): a read into a destination of n >= 1 bytes
\* returns; it returns as many bytes as it copied and moved the position by;
\* and it returns 0 exactly when it is at the end of the stream (the buffer
\* completed and the position at or beyond the produced bytes) or the
\* cancellation token is set.
C27_ReadZero ==
    (lastOp = "read" /\ rN >= 1) =>
        /\ rRet.kind = "ok"
        /\ Len(rRet.bytes) <= rN
        /\ pos = rPos0 + Len(rRet.bytes)
        /\ Len(rRet.bytes) = 0 <=>
               \/ (rSeen.completed /\ rPos0 >= rSeen.produced)
               \/ cancelled

\* ===================================================================== Spec
\* Condvar::notify_all: a reader in the condvar wait is woken (it still has
\* to take the chunk-list mutex again); nobody else is affected.
NotifyAll(pc) == IF pc = "waiting" THEN "woken" ELSE pc

\* `if let Some(ref cb) = *callback.lock().unwrap() { cb(event) }`
Emit(ev) == IF callback THEN Append(events, ev) ELSE events

\* Content-Length values a response may carry (absent or unparsable: 0).
ContentLengths == {0, NetBytes}

\* One entry of the call history.
HistOp(op, arg, ok) == [op |-> op, arg |-> arg, ok |-> ok]

\* The Player that load_url is called on in Spec: after new(),
\* set_callback(..) and play()
InitPipelinePlayer ==
    /\ player = [PlayerNew EXCEPT !.callback = TRUE, !.autoplay = TRUE,
                                  !.control.sink.paused = FALSE]
    /\ playerEvents = <<"Play">>
    /\ pPc = "idle"
    /\ pSrc = NoSrc
    /\ previous_duration = None
    /\ hist = <<HistOp("set_callback", "none", TRUE), HistOp("play", "none", TRUE)>>
    /\ retired = <<>>
    /\ InitSeek

Init ==
    /\ chunk_size \in 1..PipeChunkSize
    /\ InitWrapper
    /\ InitDownloader
    /\ callback
    /\ InitApi
    /\ InitPipelinePlayer

\* ------------------------------------------------- caller: Downloader API
\* download() with the flag read and never set.
DownloadCallNoSwap ==
    /\ cPc = "new"
    /\ cPc' = IF download_called THEN "panicked" ELSE "dl_status"
    /\ hist' = Append(hist, HistOp("download", "caller", ~download_called))
    /\ UNCHANGED <<reserved, seekVars, lateAppends, cbState, seqRead, apiVars, player, playerEvents, pPc, pSrc,
                   previous_duration, retired, bufVars, rdVars, histVars, status,
                   should_abort, download_called, download_completed,
                   thread_handle, total_bytes, downloaded_bytes, callback,
                   events, taskVars, lock>>

\* download(): download_called.swap(true), panic when it was set (the
\* history entry says whether the invocation got past the check)
DownloadCall ==
    /\ cPc = "new"
    /\ download_called' = TRUE
    /\ cPc' = IF download_called THEN "panicked" ELSE "dl_status"
    /\ hist' = Append(hist, HistOp("download", "caller", ~download_called))
    /\ UNCHANGED <<reserved, seekVars, lateAppends, cbState, seqRead, apiVars, player, playerEvents, pPc, pSrc,
                   previous_duration, retired, bufVars, rdVars, histVars, status,
                   should_abort, download_completed, thread_handle,
                   total_bytes, downloaded_bytes, callback, events, taskVars,
                   lock>>

\* download(): status := Downloading under the status mutex
DownloadSetStatus ==
    /\ cPc = "dl_status"
    /\ lock["status"] = "free"
    /\ status' = "Downloading"
    /\ cPc' = "dl_send"
    /\ UNCHANGED <<extVars, bufVars, rdVars, histVars, should_abort, download_called,
                   download_completed, thread_handle, total_bytes,
                   downloaded_bytes, callback, events, taskVars, lock>>

\* download(): send().await fails; status := Aborted, the guard is kept
DownloadSendErr ==
    /\ cPc = "dl_send"
    /\ lock["status"] = "free"
    /\ lock' = [lock EXCEPT !["status"] = "caller"]
    /\ status' = "Aborted"
    /\ cPc' = "dl_fail_cb"
    /\ UNCHANGED <<extVars, bufVars, rdVars, histVars, should_abort, download_called,
                   download_completed, thread_handle, total_bytes,
                   downloaded_bytes, callback, events, taskVars>>

\* download(): the Aborted callback of the failed request, return Err(())
DownloadFailCb ==
    /\ cPc = "dl_fail_cb"
    /\ lock["callback"] = "free"
    /\ events' = Emit("Aborted")
    /\ lock' = [lock EXCEPT !["status"] = "free"]
    /\ cPc' = "dl_err"
    /\ UNCHANGED <<extVars, bufVars, rdVars, histVars, status, should_abort,
                   download_called, download_completed, thread_handle,
                   total_bytes, downloaded_bytes, callback, taskVars>>

\* download(): send().await succeeds; Content-Length is stored in total_bytes
DownloadSendOk ==
    \E content_length \in ContentLengths :
        /\ cPc = "dl_send"
        /\ total_bytes' = content_length
        /\ cPc' = "dl_capacity"
        /\ UNCHANGED <<extVars, bufVars, rdVars, histVars, status, should_abort,
                       download_called, download_completed, thread_handle,
                       downloaded_bytes, callback, events, taskVars, lock>>

\* set_capacity(capacity): the chunk slots handed to reserve_exact
SetCapacity(capacity, d, cs) == (capacity - Len(d)) \div cs + 1

\* download() with the set_capacity call left out.
DownloadSetCapacityNone ==
    /\ cPc = "dl_capacity"
    /\ cPc' = "dl_header_cb"
    /\ UNCHANGED <<extVars, bufVars, rdVars, histVars, dlVars, taskVars, lock>>

\* download(): data.lock().set_capacity(content_length); reserve_exact
\* changes no content of the chunk list
DownloadSetCapacity ==
    /\ cPc = "dl_capacity"
    /\ lock["data"] = "free"
    /\ lock["chunks"] = "free"
    /\ reserved' = SetCapacity(total_bytes, data, chunk_size)
    /\ cPc' = "dl_header_cb"
    /\ UNCHANGED <<apiVars, playerVars, seekVars, lateAppends, cbState, seqRead, bufVars, rdVars, histVars, dlVars,
                   taskVars, lock>>

\* download(): the HeaderReceived callback
DownloadHeaderCb ==
    /\ cPc = "dl_header_cb"
    /\ lock["callback"] = "free"
    /\ events' = Emit("HeaderReceived")
    /\ cPc' = "dl_spawn"
    /\ UNCHANGED <<extVars, bufVars, rdVars, histVars, status, should_abort,
                   download_called, download_completed, thread_handle,
                   total_bytes, downloaded_bytes, callback, taskVars, lock>>

\* download(): tokio::task::spawn of the streaming task
DownloadSpawn ==
    /\ cPc = "dl_spawn"
    /\ tPc' = "await"
    /\ cPc' = "dl_handle"
    /\ UNCHANGED <<extVars, bufVars, rdVars, histVars, dlVars, tItem, taskAborted, lock>>

\* download(): the join handle is stored, return Ok(())
DownloadStoreHandle ==
    /\ cPc = "dl_handle"
    /\ lock["handle"] = "free"
    /\ thread_handle' = TRUE
    /\ cPc' = "dl_ok"
    /\ UNCHANGED <<extVars, bufVars, rdVars, histVars, status, should_abort,
                   download_called, download_completed, total_bytes,
                   downloaded_bytes, callback, events, taskVars, lock>>

\* load_url() after download() returned Ok(()): the reader and the decoder
\* are built, load() runs, and condvar, loader and token are kept on the
\* Player
LoadUrlLoad ==
    /\ cPc = "dl_ok"
    /\ lock["control"] = "free"
    /\ player' = LoadStore(LoadAppend(LoadDuration(LoadFlag(player), Some("d"))))
    /\ playerEvents' = LoadEmit(player, playerEvents)
    /\ hist' = Append(hist, HistOp("load_url", "ok", TRUE))
    /\ cPc' = "loaded"
    /\ UNCHANGED <<reserved, seekVars, lateAppends, cbState, seqRead, apiVars, pPc, pSrc, previous_duration, retired, bufVars,
                   rdVars, histVars, dlVars, taskVars, lock>>

\* abort(): status mutex taken; Err(status) unless Downloading, else
\* should_abort := true
AbortBegin ==
    /\ cPc = "loaded"
    /\ lock["status"] = "free"
    /\ IF status # "Downloading"
       THEN UNCHANGED <<should_abort, cPc, lock>>
       ELSE /\ should_abort' = TRUE
            /\ lock' = [lock EXCEPT !["status"] = "caller"]
            /\ cPc' = "abort_handle"
    /\ UNCHANGED <<extVars, bufVars, rdVars, histVars, status, download_called,
                   download_completed, thread_handle, total_bytes,
                   downloaded_bytes, callback, events, taskVars>>

\* abort(): the handle is taken and aborted, status := Aborted, Ok(())
AbortEnd ==
    /\ cPc = "abort_handle"
    /\ lock["handle"] = "free"
    /\ thread_handle' = FALSE
    /\ taskAborted' = (taskAborted \/ thread_handle)
    /\ status' = "Aborted"
    /\ lock' = [lock EXCEPT !["status"] = "free"]
    /\ cPc' = "loaded"
    /\ UNCHANGED <<extVars, bufVars, rdVars, histVars, should_abort, download_called,
                   download_completed, total_bytes, downloaded_bytes,
                   callback, events, tPc, tItem>>

\* ---------------------------------------------------- caller: Player::clear
\* clear(): the sink is stopped, then the control write lock is taken, the
\* duration is taken out and the control replaced
ClearSink ==
    /\ cPc = "loaded"
    /\ lock["control"] = "free"
    /\ previous_duration' = player.control.duration
    /\ player' = ClearControl(player)
    /\ lock' = [lock EXCEPT !["control"] = "caller"]
    /\ cPc' = "cl_release"
    /\ UNCHANGED <<reserved, seekVars, lateAppends, cbState, seqRead, apiVars, playerEvents, pPc, pSrc, hist,
                   retired, bufVars, rdVars, histVars, dlVars, taskVars>>

\* clear(): drop(control) releases the write lock before the loader is
\* dropped
ClearRelease ==
    /\ cPc = "cl_release"
    /\ lock["control"] = "caller"
    /\ lock' = [lock EXCEPT !["control"] = "free"]
    /\ cPc' = "cl_drop"
    /\ UNCHANGED <<extVars, bufVars, rdVars, histVars, dlVars, taskVars>>

\* clear(): self.loader = None runs Drop for Downloader: status mutex
\* taken, should_abort := true
DropBegin ==
    /\ cPc = "cl_drop"
    /\ lock["status"] = "free"
    /\ should_abort' = TRUE
    /\ lock' = [lock EXCEPT !["status"] = "caller"]
    /\ cPc' = "cl_drop_handle"
    /\ UNCHANGED <<extVars, bufVars, rdVars, histVars, status, download_called,
                   download_completed, thread_handle, total_bytes,
                   downloaded_bytes, callback, events, taskVars>>

\* Drop for Downloader: the handle is taken and aborted, status := Aborted
DropEnd ==
    /\ cPc = "cl_drop_handle"
    /\ lock["handle"] = "free"
    /\ thread_handle' = FALSE
    /\ taskAborted' = (taskAborted \/ thread_handle)
    /\ status' = "Aborted"
    /\ lock' = [lock EXCEPT !["status"] = "free"]
    /\ player' = ClearLoader(player)
    /\ cPc' = "cl_cancel"
    /\ UNCHANGED <<reserved, seekVars, lateAppends, cbState, seqRead, apiVars, playerEvents, pPc, pSrc,
                   previous_duration, retired, hist, bufVars, rdVars, histVars, should_abort, download_called,
                   download_completed, total_bytes, downloaded_bytes,
                   callback, events, tPc, tItem>>

\* clear(): the token is taken out of the player but not cancelled.
ClearCancelSkipped ==
    /\ cPc = "cl_cancel"
    /\ player' = ClearToken(player)
    /\ cPc' = "cl_notify"
    /\ UNCHANGED <<reserved, seekVars, lateAppends, cbState, seqRead, apiVars, playerEvents, pPc, pSrc,
                   previous_duration, retired, hist, bufVars, rdVars,
                   histVars, dlVars, taskVars, lock>>

\* clear(): cancellation_token.cancel()
ClearCancel ==
    /\ cPc = "cl_cancel"
    /\ cancelled' = TRUE
    /\ player' = ClearToken(player)
    /\ cPc' = "cl_notify"
    /\ UNCHANGED <<reserved, seekVars, lateAppends, cbState, seqRead, apiVars, playerEvents, pPc, pSrc,
                   previous_duration, retired, hist, bufVars, pos, rPc, rN, rRet, rPos0, rSeen, rWaited,
                   histVars, dlVars, taskVars, lock>>

\* clear(): condvar.notify_all()
ClearNotify ==
    /\ cPc = "cl_notify"
    /\ rPc' = NotifyAll(rPc)
    /\ player' = ClearCondvar(player)
    /\ cPc' = "cl_flags"
    /\ UNCHANGED <<reserved, seekVars, lateAppends, cbState, seqRead, apiVars, playerEvents, pPc, pSrc,
                   previous_duration, retired, hist, bufVars, pos, cancelled, rN, rRet, rPos0, rSeen, rWaited,
                   histVars, dlVars, taskVars, lock>>

\* clear(): the ended / empty flags and the events that close clear()
ClearFinish ==
    /\ cPc = "cl_flags"
    /\ player' = ClearFlags(player)
    /\ playerEvents' = ClearEmit(player, previous_duration, playerEvents)
    /\ previous_duration' = None
    /\ hist' = Append(hist, HistOp("stop", "none", TRUE))
    /\ cPc' = "cleared"
    /\ UNCHANGED <<reserved, seekVars, lateAppends, cbState, seqRead, apiVars, pPc, pSrc, retired, bufVars, rdVars,
                   histVars, dlVars, taskVars, lock>>

\* ------------------------------------------------------- the download task
\* abort() has returned Ok(()) or Drop for Downloader has run: the flag is
\* set, which only these two do, and no thread is inside one of them.
AbortReturned ==
    /\ should_abort
    /\ cPc \notin {"abort_handle", "cl_drop_handle"}
    /\ aPc # "abort_handle"

\* stream.next().await yields Some(Ok(chunk))
TaskNextChunk ==
    \E len \in 0..NetSlice :
        /\ tPc = "await"
        /\ Len(input) + len <= NetBytes
        /\ tItem' = [kind |-> "ok", bytes |-> StreamBytes(Len(input), len)]
        /\ tPc' = "chk_abort"
        /\ UNCHANGED <<extVars, bufVars, rdVars, histVars, dlVars, taskAborted, cPc, lock>>

\* stream.next().await yields Some(Err(e))
TaskNextErr ==
    /\ tPc = "await"
    /\ tItem' = [kind |-> "err", bytes |-> <<>>]
    /\ tPc' = "chk_abort"
    /\ UNCHANGED <<extVars, bufVars, rdVars, histVars, dlVars, taskAborted, cPc, lock>>

\* stream.next().await yields None: the loop is left
TaskNextEnd ==
    /\ tPc = "await"
    /\ tItem' = NoItem
    /\ tPc' = "complete"
    /\ UNCHANGED <<extVars, bufVars, rdVars, histVars, dlVars, taskAborted, cPc, lock>>

\* The task was aborted through its join handle and is suspended in
\* stream.next().await: the runtime drops it there (a task that is running
\* goes on until its next suspension, which the three actions above stay
\* enabled for)
TaskCancelled ==
    /\ tPc = "await"
    /\ taskAborted
    /\ tPc' = "cancelled"
    /\ UNCHANGED <<extVars, bufVars, rdVars, histVars, dlVars, tItem, taskAborted, cPc, lock>>

\* The loop with the should_abort check left out.
TaskCheckAbortBlind ==
    /\ tPc = "chk_abort"
    /\ tPc' = IF tItem.kind = "ok" THEN "append_lock" ELSE "err_status"
    /\ UNCHANGED <<extVars, bufVars, rdVars, histVars, dlVars, tItem, taskAborted, cPc, lock>>

\* `if should_abort.load(..)`, then `match chunk_result`
TaskCheckAbort ==
    /\ tPc = "chk_abort"
    /\ tPc' = IF should_abort THEN "ab_status"
              ELSE IF tItem.kind = "ok" THEN "append_lock" ELSE "err_status"
    /\ UNCHANGED <<extVars, bufVars, rdVars, histVars, dlVars, tItem, taskAborted, cPc, lock>>

\* should_abort seen: status := Aborted, the guard is kept
TaskAbortStatus ==
    /\ tPc = "ab_status"
    /\ lock["status"] = "free"
    /\ lock' = [lock EXCEPT !["status"] = "task"]
    /\ status' = "Aborted"
    /\ tPc' = "ab_cb"
    /\ UNCHANGED <<extVars, bufVars, rdVars, histVars, should_abort, download_called,
                   download_completed, thread_handle, total_bytes,
                   downloaded_bytes, callback, events, tItem, taskAborted, cPc>>

\* The abort exit with the status guard never released.
TaskAbortCbKeepStatus ==
    /\ tPc = "ab_cb"
    /\ lock["callback"] = "free"
    /\ events' = Emit("Aborted")
    /\ tItem' = NoItem
    /\ tPc' = "exit_abort"
    /\ UNCHANGED <<extVars, bufVars, rdVars, histVars, status, should_abort,
                   download_called, download_completed, thread_handle,
                   total_bytes, downloaded_bytes, callback, taskAborted, cPc,
                   lock>>

\* should_abort seen: the Aborted callback, return Err(())
TaskAbortCb ==
    /\ tPc = "ab_cb"
    /\ lock["callback"] = "free"
    /\ events' = Emit("Aborted")
    /\ lock' = [lock EXCEPT !["status"] = "free"]
    /\ tItem' = NoItem
    /\ tPc' = "exit_abort"
    /\ UNCHANGED <<extVars, bufVars, rdVars, histVars, status, should_abort,
                   download_called, download_completed, thread_handle,
                   total_bytes, downloaded_bytes, callback, taskAborted, cPc>>

\* Err(e) chunk: status := Aborted, the guard is kept
TaskErrStatus ==
    /\ tPc = "err_status"
    /\ lock["status"] = "free"
    /\ lock' = [lock EXCEPT !["status"] = "task"]
    /\ status' = "Aborted"
    /\ tPc' = "err_cb"
    /\ UNCHANGED <<extVars, bufVars, rdVars, histVars, should_abort, download_called,
                   download_completed, thread_handle, total_bytes,
                   downloaded_bytes, callback, events, tItem, taskAborted, cPc>>

\* Err(e) chunk with the loop going on after the Aborted callback.
TaskErrCbGoesOn ==
    /\ tPc = "err_cb"
    /\ lock["callback"] = "free"
    /\ events' = Emit("Aborted")
    /\ lock' = [lock EXCEPT !["status"] = "free"]
    /\ tItem' = NoItem
    /\ tPc' = "await"
    /\ UNCHANGED <<extVars, bufVars, rdVars, histVars, status, should_abort,
                   download_called, download_completed, thread_handle,
                   total_bytes, downloaded_bytes, callback, taskAborted, cPc>>

\* Err(e) chunk: the Aborted callback, return Err(())
TaskErrCb ==
    /\ tPc = "err_cb"
    /\ lock["callback"] = "free"
    /\ events' = Emit("Aborted")
    /\ lock' = [lock EXCEPT !["status"] = "free"]
    /\ tItem' = NoItem
    /\ tPc' = "exit_error"
    /\ UNCHANGED <<extVars, bufVars, rdVars, histVars, status, should_abort,
                   download_called, download_completed, thread_handle,
                   total_bytes, downloaded_bytes, callback, taskAborted, cPc>>

\* Ok(chunk): `let mut data_lock = data.lock().unwrap()`
TaskLockData ==
    /\ tPc = "append_lock"
    /\ lock["data"] = "free"
    /\ lock' = [lock EXCEPT !["data"] = "task"]
    /\ tPc' = "append_data"
    /\ UNCHANGED <<extVars, bufVars, rdVars, histVars, dlVars, tItem, taskAborted, cPc>>

\* Ok(chunk) with the drop(data_lock) left out: the data mutex stays held
TaskAppendDataKeepLock ==
    /\ tPc = "append_data"
    /\ AppendLocks(chunk_size, current_chunk, completed, tItem.bytes)
           => lock["chunks"] = "free"
    /\ LET r == AppendData(chunk_size, data, current_chunk, completed, tItem.bytes)
       IN /\ data' = r.data
          /\ current_chunk' = r.current_chunk
    /\ input' = IF completed THEN input ELSE input \o tItem.bytes
    /\ lateAppends' = IF AbortReturned THEN lateAppends + 1 ELSE lateAppends
    /\ tPc' = "notify"
    /\ UNCHANGED <<reserved, apiVars, playerVars, seekVars, cbState, seqRead, chunk_size, completed,
                   rdVars, lastOp, dlVars, tItem, taskAborted, cPc, lock>>

\* Ok(chunk): append_data(&chunk), which takes the chunk-list mutex for its
\* push, then drop(data_lock)
TaskAppendData ==
    /\ tPc = "append_data"
    /\ AppendLocks(chunk_size, current_chunk, completed, tItem.bytes)
           => lock["chunks"] = "free"
    /\ LET r == AppendData(chunk_size, data, current_chunk, completed, tItem.bytes)
       IN /\ data' = r.data
          /\ current_chunk' = r.current_chunk
    /\ input' = IF completed THEN input ELSE input \o tItem.bytes
    /\ lock' = [lock EXCEPT !["data"] = "free"]
    /\ lateAppends' = IF AbortReturned THEN lateAppends + 1 ELSE lateAppends
    /\ tPc' = "notify"
    /\ UNCHANGED <<reserved, apiVars, playerVars, seekVars, cbState, seqRead, chunk_size, completed,
                   rdVars, lastOp, dlVars, tItem, taskAborted, cPc>>

\* Ok(chunk) with the notification left out
TaskNotifyNobody ==
    /\ tPc = "notify"
    /\ tPc' = "bump"
    /\ UNCHANGED <<extVars, bufVars, rdVars, histVars, dlVars, tItem, taskAborted, cPc, lock>>

\* Ok(chunk): condvar.notify_all()
TaskNotify ==
    /\ tPc = "notify"
    /\ rPc' = NotifyAll(rPc)
    /\ tPc' = "bump"
    /\ UNCHANGED <<extVars, bufVars, pos, cancelled, rN, rRet, rPos0, rSeen, rWaited,
                   histVars, dlVars, tItem, taskAborted, cPc, lock>>

\* Ok(chunk): downloaded_bytes.fetch_add(chunk.len()); the chunk is dropped
\* and the loop is back at the await
TaskBump ==
    /\ tPc = "bump"
    /\ downloaded_bytes' = downloaded_bytes + Len(tItem.bytes)
    /\ tItem' = NoItem
    /\ tPc' = "await"
    /\ UNCHANGED <<extVars, bufVars, rdVars, histVars, status, should_abort,
                   download_called, download_completed, thread_handle,
                   total_bytes, callback, events, taskAborted, cPc, lock>>

\* stream end: data.lock() of `data.lock().unwrap().complete()`
TaskCompleteLock ==
    /\ tPc = "complete"
    /\ lock["data"] = "free"
    /\ lock' = [lock EXCEPT !["data"] = "task"]
    /\ tPc' = "complete_push"
    /\ UNCHANGED <<extVars, bufVars, rdVars, histVars, dlVars, tItem, taskAborted, cPc>>

\* complete() with the tail dropped instead of pushed.
TaskCompletePushNothing ==
    /\ tPc = "complete_push"
    /\ current_chunk' = <<>>
    /\ tPc' = "complete_store"
    /\ UNCHANGED <<extVars, chunk_size, data, completed, rdVars, histVars,
                   dlVars, tItem, taskAborted, cPc, lock>>

\* complete(): the non-empty tail is pushed under the chunk-list mutex
TaskCompletePush ==
    /\ tPc = "complete_push"
    /\ Len(current_chunk) > 0 => lock["chunks"] = "free"
    /\ LET r == CompletePush(data, current_chunk) IN
          /\ data' = r.data
          /\ current_chunk' = r.current_chunk
    /\ tPc' = "complete_store"
    /\ UNCHANGED <<extVars, chunk_size, completed, rdVars, histVars, dlVars, tItem,
                   taskAborted, cPc, lock>>

\* complete(): completed.store(true); the data guard is dropped
TaskCompleteStore ==
    /\ tPc = "complete_store"
    /\ completed' = TRUE
    /\ lock' = [lock EXCEPT !["data"] = "free"]
    /\ tPc' = "fin_status"
    /\ UNCHANGED <<extVars, chunk_size, data, current_chunk, rdVars, histVars, dlVars,
                   tItem, taskAborted, cPc>>

\* stream end: status := Completed, the guard is kept to the end of the task
TaskFinStatus ==
    /\ tPc = "fin_status"
    /\ lock["status"] = "free"
    /\ lock' = [lock EXCEPT !["status"] = "task"]
    /\ status' = "Completed"
    /\ tPc' = "fin_flag"
    /\ UNCHANGED <<extVars, bufVars, rdVars, histVars, should_abort, download_called,
                   download_completed, thread_handle, total_bytes,
                   downloaded_bytes, callback, events, tItem, taskAborted, cPc>>

\* stream end: download_completed.store(true)
TaskFinFlag ==
    /\ tPc = "fin_flag"
    /\ download_completed' = TRUE
    /\ tPc' = "fin_notify"
    /\ UNCHANGED <<extVars, bufVars, rdVars, histVars, status, should_abort,
                   download_called, thread_handle, total_bytes,
                   downloaded_bytes, callback, events, tItem, taskAborted,
                   cPc, lock>>

\* stream end: condvar.notify_all()
TaskFinNotify ==
    /\ tPc = "fin_notify"
    /\ rPc' = NotifyAll(rPc)
    /\ tPc' = "fin_cb"
    /\ UNCHANGED <<extVars, bufVars, pos, cancelled, rN, rRet, rPos0, rSeen, rWaited,
                   histVars, dlVars, tItem, taskAborted, cPc, lock>>

\* stream end: the Completed callback, return Ok(())
TaskFinCb ==
    /\ tPc = "fin_cb"
    /\ lock["callback"] = "free"
    /\ events' = Emit("Completed")
    /\ lock' = [lock EXCEPT !["status"] = "free"]
    /\ tPc' = "done"
    /\ UNCHANGED <<extVars, bufVars, rdVars, histVars, status, should_abort,
                   download_called, download_completed, thread_handle,
                   total_bytes, downloaded_bytes, callback, tItem,
                   taskAborted, cPc>>

\* ------------------------------------------------------- the reader thread
\* The reader exists once load_url has got Ok(()) from download().
ReaderExists ==
    cPc \in {"loaded", "abort_handle", "cl_release", "cl_drop", "cl_drop_handle",
             "cl_cancel", "cl_notify", "cl_flags", "cleared"}

\* read(buf) is called with buf.len() = n
ReadCall ==
    \E n \in 1..PipeRead :
        /\ ReaderExists
        /\ rPc = "idle"
        /\ rN' = n
        /\ rPos0' = pos
        /\ rWaited' = FALSE
        /\ rPc' = "lock"
        /\ UNCHANGED <<extVars, bufVars, pos, cancelled, rRet, rSeen, histVars, pipeVars>>

\* The chunk-list mutex is taken (on entry, or on return from the condvar
\* wait) and the loop condition is evaluated; when it is false the chunks
\* are picked, the mutex is released and the bytes are copied
ReadAcquire ==
    /\ rPc \in {"lock", "woken"}
    /\ lock["chunks"] = "free"
    /\ IF MustWait(pos, data, chunk_size)
       THEN /\ lock' = [lock EXCEPT !["chunks"] = "reader"]
            /\ rPc' = "ld_completed"
            /\ UNCHANGED <<pos, rRet, rSeen>>
       ELSE LET r == ReadCopy(data, chunk_size, pos, rN) IN
            /\ rRet' = r
            /\ rSeen' = Seen(data, completed)
            /\ pos' = pos + Len(r.bytes)
            /\ rPc' = IF r.kind = "panic" THEN "panicked" ELSE "idle"
            /\ UNCHANGED lock
    /\ UNCHANGED <<extVars, bufVars, cancelled, rN, rPos0, rWaited, histVars, dlVars,
                   taskVars, cPc>>

\* `if self.download_completed.load(..) { return Ok(0) }`
ReadLoadCompleted ==
    /\ rPc = "ld_completed"
    /\ IF completed
       THEN /\ rRet' = [kind |-> "ok", bytes |-> <<>>]
            /\ rSeen' = Seen(data, completed)
            /\ lock' = [lock EXCEPT !["chunks"] = "free"]
            /\ rPc' = "idle"
       ELSE /\ rPc' = "ld_cancel"
            /\ UNCHANGED <<rRet, rSeen, lock>>
    /\ UNCHANGED <<extVars, bufVars, pos, cancelled, rN, rPos0, rWaited, histVars,
                   dlVars, taskVars, cPc>>

\* `if self.cancellation_token.is_cancelled() { return Ok(0) }`
ReadLoadCancel ==
    /\ rPc = "ld_cancel"
    /\ IF cancelled
       THEN /\ rRet' = [kind |-> "ok", bytes |-> <<>>]
            /\ rSeen' = Seen(data, completed)
            /\ lock' = [lock EXCEPT !["chunks"] = "free"]
            /\ rPc' = "idle"
       ELSE /\ rPc' = "wait"
            /\ UNCHANGED <<rRet, rSeen, lock>>
    /\ UNCHANGED <<extVars, bufVars, pos, cancelled, rN, rPos0, rWaited, histVars,
                   dlVars, taskVars, cPc>>

\* condvar.wait(data): the mutex is released and the thread sleeps
ReadWait ==
    /\ rPc = "wait"
    /\ lock' = [lock EXCEPT !["chunks"] = "free"]
    /\ rWaited' = TRUE
    /\ rPc' = "waiting"
    /\ UNCHANGED <<extVars, bufVars, pos, cancelled, rN, rRet, rPos0, rSeen, histVars,
                   dlVars, taskVars, cPc>>

\* A spurious wake-up, which Condvar::wait allows and never promises
ReadSpuriousWake ==
    /\ rPc = "waiting"
    /\ rPc' = "woken"
    /\ UNCHANGED <<extVars, bufVars, pos, cancelled, rN, rRet, rPos0, rSeen, rWaited,
                   histVars, pipeVars>>

\* seek(SeekFrom::Start(p)) between two reads (rN, rRet, rPos0, rSeen and
\* rWaited describe the read that was the reader's last call: a seek
\* clears them)
ReadSeekStart ==
    \E p \in 0..PipePos :
        /\ ReaderExists
        /\ rPc = "idle"
        /\ pos' = p
        /\ rN' = 0
        /\ rRet' = NoRet
        /\ rPos0' = 0
        /\ rSeen' = NoSeen
        /\ rWaited' = FALSE
        /\ UNCHANGED <<extVars, bufVars, cancelled, rPc, histVars, pipeVars>>

CallerNext ==
    \/ DownloadCall \/ DownloadSetStatus \/ DownloadSendErr
    \/ DownloadFailCb \/ DownloadSendOk \/ DownloadSetCapacity
    \/ DownloadHeaderCb \/ DownloadSpawn \/ DownloadStoreHandle
    \/ LoadUrlLoad \/ AbortBegin \/ AbortEnd
    \/ ClearSink \/ ClearRelease \/ DropBegin \/ DropEnd \/ ClearCancel
    \/ ClearNotify \/ ClearFinish

TaskNext ==
    \/ TaskNextChunk \/ TaskNextErr \/ TaskNextEnd \/ TaskCancelled
    \/ TaskCheckAbort \/ TaskAbortStatus \/ TaskAbortCb \/ TaskErrStatus
    \/ TaskErrCb \/ TaskLockData \/ TaskAppendData \/ TaskNotify \/ TaskBump
    \/ TaskCompleteLock \/ TaskCompletePush \/ TaskCompleteStore
    \/ TaskFinStatus \/ TaskFinFlag \/ TaskFinNotify \/ TaskFinCb

ReaderNext ==
    \/ ReadCall \/ ReadAcquire \/ ReadLoadCompleted \/ ReadLoadCancel
    \/ ReadWait \/ ReadSpuriousWake \/ ReadSeekStart

Next == CallerNext \/ TaskNext \/ ReaderNext

Spec == Init /\ [][Next]_vars

\* ============================================================= SpecTeardown
\* Spec with the scheduling the code can count on: a thread that is inside
\* clear() goes on running, and so does the task between two awaits of the
\* body stream. Nothing is assumed of the network (the awaits may never
\* return) nor of the reader thread.
ClearRun ==
    \/ ClearRelease \/ DropBegin \/ DropEnd \/ ClearCancel \/ ClearNotify
    \/ ClearFinish

TaskRun ==
    \/ TaskCheckAbort \/ TaskAbortStatus \/ TaskAbortCb \/ TaskErrStatus
    \/ TaskErrCb \/ TaskLockData \/ TaskAppendData \/ TaskNotify \/ TaskBump
    \/ TaskCompleteLock \/ TaskCompletePush \/ TaskCompleteStore
    \/ TaskFinStatus \/ TaskFinFlag \/ TaskFinNotify \/ TaskFinCb

SpecTeardown == Init /\ [][Next]_vars /\ WF_vars(ClearRun) /\ WF_vars(TaskRun)

\* =================================================================== SpecDl
\* The Downloader used directly through its API: one thread calls download(),
\* and that thread or a second one calls download() again and abort() at any
\* moment; the spawned task runs as in Spec.
InitDl ==
    /\ chunk_size \in 1..PipeChunkSize
    /\ InitWrapper
    /\ InitDownloader
    /\ InitApi
    /\ InitPlayer

\* A further invocation of download(), by the thread whose first invocation
\* has returned or by the second thread while the first invocation is under
\* way or over: download_called.swap(true), panic when it was set
DownloadAgain ==
    \E t \in {"caller", "api"} :
        /\ cPc # "new"
        /\ IF t = "caller" THEN cPc \in {"dl_ok", "dl_err"} ELSE aPc = "idle"
        /\ download_called' = TRUE
        /\ LET next == IF download_called THEN "panicked" ELSE "dl_status" IN
           IF t = "caller"
           THEN cPc' = next /\ UNCHANGED aPc
           ELSE aPc' = next /\ UNCHANGED cPc
        /\ hist' = Append(hist, HistOp("download", t, ~download_called))
        /\ UNCHANGED <<reserved, seekVars, lateAppends, cbState, seqRead, abortRet, player, playerEvents, pPc, pSrc,
                       previous_duration, retired, bufVars, rdVars, histVars, status,
                       should_abort, download_completed, thread_handle,
                       total_bytes, downloaded_bytes, callback, events,
                       taskVars, lock>>

\* abort() with the status check left out.
ApiAbortAlways ==
    /\ aPc = "idle"
    /\ lock["status"] = "free"
    /\ should_abort' = TRUE
    /\ lock' = [lock EXCEPT !["status"] = "api"]
    /\ aPc' = "abort_handle"
    /\ UNCHANGED <<reserved, seekVars, lateAppends, cbState, seqRead, abortRet, playerVars, bufVars, rdVars, histVars,
                   status, download_called, download_completed, thread_handle,
                   total_bytes, downloaded_bytes, callback, events, taskVars,
                   cPc>>

\* abort() on the second thread: status mutex taken; Err(status) unless
\* Downloading, else should_abort := true
ApiAbortBegin ==
    /\ aPc = "idle"
    /\ lock["status"] = "free"
    /\ IF status # "Downloading"
       THEN /\ abortRet' = [kind |-> "Err", status |-> status]
            /\ UNCHANGED <<should_abort, aPc, lock>>
       ELSE /\ should_abort' = TRUE
            /\ lock' = [lock EXCEPT !["status"] = "api"]
            /\ aPc' = "abort_handle"
            /\ UNCHANGED abortRet
    /\ UNCHANGED <<reserved, seekVars, lateAppends, cbState, seqRead, playerVars, bufVars, rdVars, histVars, status,
                   download_called, download_completed, thread_handle,
                   total_bytes, downloaded_bytes, callback, events, taskVars,
                   cPc>>

\* abort() on the second thread: the handle is taken and aborted,
\* status := Aborted, Ok(())
ApiAbortEnd ==
    /\ aPc = "abort_handle"
    /\ lock["handle"] = "free"
    /\ thread_handle' = FALSE
    /\ taskAborted' = (taskAborted \/ thread_handle)
    /\ status' = "Aborted"
    /\ lock' = [lock EXCEPT !["status"] = "free"]
    /\ abortRet' = [kind |-> "Ok", status |-> "none"]
    /\ aPc' = "idle"
    /\ UNCHANGED <<reserved, seekVars, lateAppends, cbState, seqRead, playerVars, bufVars, rdVars, histVars,
                   should_abort, download_called, download_completed,
                   total_bytes, downloaded_bytes, callback, events, tPc, tItem,
                   cPc>>

DownloadNext ==
    \/ DownloadCall \/ DownloadSetStatus \/ DownloadSendErr
    \/ DownloadFailCb \/ DownloadSendOk \/ DownloadSetCapacity
    \/ DownloadHeaderCb \/ DownloadSpawn \/ DownloadStoreHandle

ApiNext == DownloadAgain \/ ApiAbortBegin \/ ApiAbortEnd

NextDl == DownloadNext \/ ApiNext \/ TaskNext

SpecDl == InitDl /\ [][NextDl]_vars

\* =============================================================== SpecPlayer
\* The Player driven call by call by the thread that owns it, with the sink
\* of the audio thread playing what was appended. load() is taken in its
\* steps (duration, events, append); clear() and download() are whole calls
\* here, their interleavings being those of Spec and SpecDl, and the download
\* task and the decoder's reads do not step.
InitPl ==
    /\ chunk_size = PipeChunkSize
    /\ InitWrapper
    /\ InitDownloader
    /\ ~callback
    /\ InitApi
    /\ InitPlayer

\* What File::open and Decoder::try_from make of a path: "missing" does not
\* open, "bad" does not decode, "a" has a known total duration, "b" has none.
Files == {"a", "b", "missing", "bad"}
FileDuration(f) == IF f = "a" THEN Some("a") ELSE None

\* total_duration() of a source handed to load_source or decoded from a
\* reader or a URL
Durations == {None, Some("d")}

\* The Player may be called: it is between two calls and fewer than MaxOps
\* calls were made.
CanCall == pPc = "idle" /\ Len(hist) < MaxOps

\* Drop for Downloader as one call, when the Player holds a loader
DropLoader(had) ==
    IF had
    THEN /\ should_abort' = TRUE
         /\ thread_handle' = FALSE
         /\ taskAborted' = (taskAborted \/ thread_handle)
         /\ status' = "Aborted"
    ELSE UNCHANGED <<should_abort, thread_handle, taskAborted, status>>

\* What clear() does to the pipeline of the source it clears: the loader is
\* dropped, the token cancelled, the condvar notified
ClearPipeline(p) ==
    /\ DropLoader(p.loader)
    /\ cancelled' = (cancelled \/ p.cancellation_token)
    /\ rPc' = IF p.condvar THEN NotifyAll(rPc) ELSE rPc

\* The pipeline of the source clear() tears down, as clear() leaves it: what
\* ClearPipeline makes of the Downloader, the token and the condvar
Cleared(p) ==
    [should_abort |-> (should_abort \/ p.loader),
     thread_handle |-> (thread_handle /\ ~p.loader),
     status |-> IF p.loader THEN "Aborted" ELSE status,
     cancelled |-> (cancelled \/ p.cancellation_token),
     notified |-> p.condvar]

\* The pipeline variables clear() leaves alone.
pipelineKept ==
    <<reserved, seekVars, lateAppends, cbState, seqRead, apiVars, bufVars, pos, rN, rRet, rPos0, rSeen, rWaited,
      histVars, download_called, download_completed, total_bytes,
      downloaded_bytes, callback, events, tPc, tItem, cPc, lock>>

\* play() with autoplay left as it was.
PlayNoAutoplay ==
    /\ CanCall
    /\ player' = [player EXCEPT !.control.sink.paused = FALSE]
    /\ playerEvents' = EmitPlayer(player, playerEvents, "Play")
    /\ hist' = Append(hist, HistOp("play", "none", TRUE))
    /\ UNCHANGED <<pPc, pSrc, previous_duration, retired, reserved, seekVars, lateAppends, cbState, seqRead, apiVars, bufVars,
                   rdVars, histVars, pipeVars>>

\* play(): sink.play(), autoplay := true, Play
Play ==
    /\ CanCall
    /\ player' = [player EXCEPT !.control.sink.paused = FALSE, !.autoplay = TRUE]
    /\ playerEvents' = EmitPlayer(player, playerEvents, "Play")
    /\ hist' = Append(hist, HistOp("play", "none", TRUE))
    /\ UNCHANGED <<pPc, pSrc, previous_duration, retired, reserved, seekVars, lateAppends, cbState, seqRead, apiVars, bufVars,
                   rdVars, histVars, pipeVars>>

\* pause() with autoplay left as it was.
PauseNoAutoplay ==
    /\ CanCall
    /\ player' = [player EXCEPT !.control.sink.paused = TRUE]
    /\ playerEvents' = EmitPlayer(player, playerEvents, "Pause")
    /\ hist' = Append(hist, HistOp("pause", "none", TRUE))
    /\ UNCHANGED <<pPc, pSrc, previous_duration, retired, reserved, seekVars, lateAppends, cbState, seqRead, apiVars, bufVars,
                   rdVars, histVars, pipeVars>>

\* pause(): sink.pause(), autoplay := false, Pause
Pause ==
    /\ CanCall
    /\ player' = [player EXCEPT !.control.sink.paused = TRUE, !.autoplay = FALSE]
    /\ playerEvents' = EmitPlayer(player, playerEvents, "Pause")
    /\ hist' = Append(hist, HistOp("pause", "none", TRUE))
    /\ UNCHANGED <<pPc, pSrc, previous_duration, retired, reserved, seekVars, lateAppends, cbState, seqRead, apiVars, bufVars,
                   rdVars, histVars, pipeVars>>

\* set_callback(f)
SetCallback ==
    /\ CanCall
    /\ player' = [player EXCEPT !.callback = TRUE]
    /\ hist' = Append(hist, HistOp("set_callback", "none", TRUE))
    /\ UNCHANGED <<playerEvents, pPc, pSrc, previous_duration, retired, reserved, seekVars, lateAppends, cbState, seqRead,
                   apiVars, bufVars, rdVars, histVars, pipeVars>>

\* seek(position): Seeking is emitted before the sink is called
SeekBegin ==
    /\ CanCall
    /\ playerEvents' = EmitPlayer(player, playerEvents, "Seeking")
    /\ pPc' = "seek_call"
    /\ UNCHANGED <<player, pSrc, previous_duration, retired, hist, reserved,
                   seekVars, lateAppends, cbState, seqRead, apiVars, bufVars, rdVars, histVars, pipeVars>>

\* What Sink::try_seek may return.
SeekResults == {"Ok", "Err"}

\* seek() with Seeked emitted whatever the sink returned.
SeekEndAlwaysSeeked ==
    \E seek_result \in SeekResults :
        /\ pPc = "seek_call"
        /\ player' = [player EXCEPT !.control.sink.seek = seek_result]
        /\ playerEvents' = EmitPlayer(player, playerEvents, "Seeked")
        /\ hist' = Append(hist, HistOp("seek", "none", seek_result = "Ok"))
        /\ pPc' = "idle"
        /\ UNCHANGED <<pSrc, previous_duration, retired, reserved, seekVars, lateAppends, cbState, seqRead,
                       apiVars, bufVars, rdVars, histVars, pipeVars>>

\* seek(position): control.read().seek(position) forwards to
\* Sink::try_seek; on Err the error is returned, else Seeked is emitted and
\* Ok returned
SeekEnd ==
    \E seek_result \in SeekResults :
        /\ pPc = "seek_call"
        /\ player' = [player EXCEPT !.control.sink.seek = seek_result]
        /\ playerEvents' = IF seek_result = "Err" THEN playerEvents
                            ELSE EmitPlayer(player, playerEvents, "Seeked")
        /\ hist' = Append(hist, HistOp("seek", "none", seek_result = "Ok"))
        /\ pPc' = "idle"
        /\ UNCHANGED <<pSrc, previous_duration, retired, reserved, seekVars, lateAppends, cbState, seqRead,
                       apiVars, bufVars, rdVars, histVars, pipeVars>>

\* stop(): clear()
Stop ==
    /\ CanCall
    /\ LET c == Clear(player, playerEvents) IN
          /\ player' = c.player
          /\ playerEvents' = c.events
    /\ ClearPipeline(player)
    /\ hist' = Append(hist, HistOp("stop", "none", TRUE))
    /\ UNCHANGED <<pPc, pSrc, previous_duration, retired, pipelineKept>>

\* Drop for Player: clear(); no call follows
PlayerDrop ==
    /\ CanCall
    /\ LET c == Clear(player, playerEvents) IN
          /\ player' = c.player
          /\ playerEvents' = c.events
    /\ ClearPipeline(player)
    /\ hist' = Append(hist, HistOp("drop", "none", TRUE))
    /\ pPc' = "dropped"
    /\ UNCHANGED <<pSrc, previous_duration, retired, pipelineKept>>

\* The head of every load_*: clear() when the player is not empty
LoadClear ==
    IF ~player.empty
    THEN ClearPipeline(player)
    ELSE UNCHANGED <<should_abort, thread_handle, taskAborted, status,
                     cancelled, rPc>>

\* load_file(path): clear, File::open, Decoder::try_from, then load() up to
\* empty := false
LoadFile ==
    \E f \in Files :
        /\ CanCall
        /\ LoadClear
        /\ LET c == ClearIfLoaded(player, playerEvents) IN
           IF f \in {"missing", "bad"}
           THEN /\ player' = c.player
                /\ playerEvents' = c.events
                /\ hist' = Append(hist, HistOp("load_file", f, FALSE))
                /\ UNCHANGED <<pPc, pSrc>>
           ELSE /\ player' = LoadFlag(c.player)
                /\ playerEvents' = c.events
                /\ pSrc' = [op |-> "load_file", arg |-> f,
                            total_duration |-> FileDuration(f), url |-> FALSE]
                /\ pPc' = "load_duration"
                /\ UNCHANGED hist
        /\ UNCHANGED <<previous_duration, retired, pipelineKept>>

\* load_reader(reader): clear, Decoder::new, then load() up to empty := false
LoadReader ==
    \E ok \in BOOLEAN, d \in Durations :
        /\ CanCall
        /\ ~ok => d = None
        /\ LoadClear
        /\ LET c == ClearIfLoaded(player, playerEvents) IN
           IF ~ok
           THEN /\ player' = c.player
                /\ playerEvents' = c.events
                /\ hist' = Append(hist, HistOp("load_reader", "bad", FALSE))
                /\ UNCHANGED <<pPc, pSrc>>
           ELSE /\ player' = LoadFlag(c.player)
                /\ playerEvents' = c.events
                /\ pSrc' = [op |-> "load_reader", arg |-> "reader",
                            total_duration |-> d, url |-> FALSE]
                /\ pPc' = "load_duration"
                /\ UNCHANGED hist
        /\ UNCHANGED <<previous_duration, retired, pipelineKept>>

\* load_source(source): clear, LoadStart, then load() up to empty := false
LoadSource ==
    \E d \in Durations :
        /\ CanCall
        /\ LoadClear
        /\ LET c == ClearIfLoaded(player, playerEvents) IN
              /\ player' = LoadFlag(c.player)
              /\ playerEvents' = EmitPlayer(player, c.events, "LoadStart")
        /\ pSrc' = [op |-> "load_source", arg |-> "source",
                    total_duration |-> d, url |-> FALSE]
        /\ pPc' = "load_duration"
        /\ UNCHANGED <<hist, previous_duration, retired, pipelineKept>>

\* load_url() with no event for a failed download.
LoadUrlErrorSilent(p, evs) == evs

\* MVecBytesReader::new handed the token of the reader before it.
ReaderTokenReused(previous) == previous

\* MVecBytesReader::new: cancellation_token: CancellationToken::new(), a
\* token of its own that no earlier reader shares, not cancelled
ReaderToken(previous) == FALSE

\* load_url(): `if let Err(_) = loader.download(url, None).await` emits Error
LoadUrlError(p, evs) == EmitPlayer(p, evs, "Error")

\* load_url(url): clear, a new wrapper and Downloader with the forwarding
\* callback, download() as one call, the reader, Decoder::new, then load()
\* up to empty := false. send_err: download() returns Err, Error is emitted;
\* decode_err: Decoder::new fails; in both the Downloader is dropped on
\* return. The pipeline variables then describe the new Downloader, and the
\* pipeline of a URL source that was cleared is kept in retired.
LoadUrl ==
    \E outcome \in {"send_err", "decode_err", "ok"},
       content_length \in ContentLengths, d \in Durations :
        /\ CanCall
        /\ outcome = "send_err" => content_length = 0
        /\ outcome # "ok" => d = None
        /\ data' = <<>> /\ completed' = FALSE /\ current_chunk' = <<>>
        /\ input' = <<>> /\ lastOp' = "new"
        /\ pos' = 0 /\ cancelled' = ReaderToken(cancelled) /\ rPc' = "idle" /\ rN' = 0
        /\ rRet' = NoRet /\ rPos0' = 0 /\ rSeen' = NoSeen /\ rWaited' = FALSE
        /\ callback' = TRUE
        /\ download_called' = TRUE
        /\ download_completed' = FALSE
        /\ downloaded_bytes' = 0
        /\ tItem' = NoItem
        /\ total_bytes' = content_length
        /\ should_abort' = (outcome # "ok")
        /\ status' = IF outcome = "ok" THEN "Downloading" ELSE "Aborted"
        /\ thread_handle' = (outcome = "ok")
        /\ taskAborted' = (outcome = "decode_err")
        /\ tPc' = IF outcome = "send_err" THEN "none" ELSE "await"
        /\ reserved' = IF outcome = "send_err" THEN 0
                       ELSE SetCapacity(content_length, <<>>, chunk_size)
        /\ events' = IF outcome = "send_err" THEN <<"Aborted">>
                     ELSE <<"HeaderReceived">>
        /\ cPc' = IF outcome = "send_err" THEN "dl_err" ELSE "dl_ok"
        /\ retired' = IF ~player.empty /\ player.loader
                       THEN Append(retired, Cleared(player)) ELSE retired
        /\ LET c == ClearIfLoaded(player, playerEvents) IN
           CASE outcome = "send_err" ->
                  /\ player' = c.player
                  /\ playerEvents' = LoadUrlError(c.player, c.events)
                  /\ hist' = Append(hist, HistOp("load_url", outcome, FALSE))
                  /\ UNCHANGED <<pPc, pSrc>>
             [] outcome = "decode_err" ->
                  /\ player' = c.player
                  /\ playerEvents' = c.events
                  /\ hist' = Append(hist, HistOp("load_url", outcome, FALSE))
                  /\ UNCHANGED <<pPc, pSrc>>
             [] outcome = "ok" ->
                  /\ player' = LoadFlag(c.player)
                  /\ playerEvents' = c.events
                  /\ pSrc' = [op |-> "load_url", arg |-> "ok",
                              total_duration |-> d, url |-> TRUE]
                  /\ pPc' = "load_duration"
                  /\ UNCHANGED hist
        /\ UNCHANGED <<chunk_size, apiVars, seekVars, lateAppends, cbState, seqRead, previous_duration, lock>>

\* load(): control.write().duration = source.total_duration()
LoadSetDuration ==
    /\ pPc = "load_duration"
    /\ player' = LoadDuration(player, pSrc.total_duration)
    /\ pPc' = "load_emit"
    /\ UNCHANGED <<playerEvents, pSrc, previous_duration, retired, hist, reserved, seekVars, lateAppends, cbState, seqRead,
                   apiVars, bufVars, rdVars, histVars, pipeVars>>

\* load(): DurationChange, LoadedMetadata, LoadedData
LoadEmitEvents ==
    /\ pPc = "load_emit"
    /\ playerEvents' = LoadEmit(player, playerEvents)
    /\ pPc' = "load_append"
    /\ UNCHANGED <<player, pSrc, previous_duration, retired, hist, reserved, seekVars, lateAppends, cbState, seqRead, apiVars,
                   bufVars, rdVars, histVars, pipeVars>>

\* load(): the source and the sentinel are appended to the sink; load_url
\* then keeps condvar, loader and token; the call returns Ok
LoadAppendSource ==
    /\ pPc = "load_append"
    /\ player' = IF pSrc.url THEN LoadStore(LoadAppend(player))
                 ELSE LoadAppend(player)
    /\ hist' = Append(hist, HistOp(pSrc.op, pSrc.arg, TRUE))
    /\ pSrc' = NoSrc
    /\ pPc' = "idle"
    /\ cPc' = IF pSrc.url THEN "loaded" ELSE cPc
    /\ UNCHANGED <<playerEvents, previous_duration, retired, reserved, seekVars, lateAppends, cbState, seqRead, apiVars, bufVars,
                   rdVars, histVars, dlVars, taskVars, lock>>

\* The audio thread: the sink, not paused, plays the source at the head of
\* its queue to its end
SinkDrain ==
    /\ ~player.control.sink.paused
    /\ player.control.sink.queue # <<>>
    /\ Head(player.control.sink.queue) = "source"
    /\ player' = [player EXCEPT !.control.sink.queue = Tail(@)]
    /\ UNCHANGED <<playerEvents, pPc, pSrc, previous_duration, retired, hist, reserved, seekVars, lateAppends, cbState, seqRead,
                   apiVars, bufVars, rdVars, histVars, pipeVars>>

\* The audio thread: the sink reaches the sentinel and runs its closure
SinkSentinel ==
    /\ ~player.control.sink.paused
    /\ player.control.sink.queue # <<>>
    /\ Head(player.control.sink.queue) = "sentinel"
    /\ player' = [Sentinel(player) EXCEPT !.control.sink.queue = Tail(@),
                                         !.control.sink.reached = TRUE]
    /\ playerEvents' = EmitPlayer(player, playerEvents, "Ended")
    /\ UNCHANGED <<pPc, pSrc, previous_duration, retired, hist, reserved, seekVars, lateAppends, cbState, seqRead, apiVars,
                   bufVars, rdVars, histVars, pipeVars>>

PlayerNext ==
    \/ Play \/ Pause \/ SetCallback \/ SeekBegin \/ SeekEnd \/ Stop \/ PlayerDrop
    \/ LoadFile \/ LoadReader \/ LoadSource \/ LoadUrl
    \/ LoadSetDuration \/ LoadEmitEvents \/ LoadAppendSource

SinkNext == SinkDrain \/ SinkSentinel

NextPl == PlayerNext \/ SinkNext

SpecPlayer == InitPl /\ [][NextPl]_vars

\* ============================================================== SpecLoadUrl
\* load_url up to its return, with what lies between download() and load():
\* Decoder::new(reader) probes the format, which reads from the reader on
\* the caller thread while the task fills the buffer. The reads are those of
\* MVecBytesReader::read, step by step as in Spec.
\* The probe calls read(buf) with buf.len() = n
ProbeCall ==
    \E n \in 1..PipeRead :
        /\ cPc = "dl_ok"
        /\ rPc = "idle"
        /\ rN' = n
        /\ rPos0' = pos
        /\ rWaited' = FALSE
        /\ rPc' = "lock"
        /\ UNCHANGED <<extVars, bufVars, pos, cancelled, rRet, rSeen, histVars,
                       pipeVars>>

\* Decoder::new returns Ok after a read that gave it bytes; load() runs and
\* load_url returns Ok
ProbeOk ==
    /\ rPc = "idle"
    /\ rRet.kind = "ok"
    /\ rRet.bytes # <<>>
    /\ LoadUrlLoad

\* Decoder::new returns Err after a read that returned (bytes it does not
\* recognise, or 0); `?` returns it and the local Downloader is dropped
ProbeErr ==
    /\ cPc = "dl_ok"
    /\ rPc = "idle"
    /\ rRet.kind = "ok"
    /\ lock["status"] = "free"
    /\ lock["handle"] = "free"
    /\ DropLoader(TRUE)
    /\ hist' = Append(hist, HistOp("load_url", "decode_err", FALSE))
    /\ cPc' = "load_err"
    /\ UNCHANGED <<reserved, seekVars, lateAppends, cbState, seqRead, apiVars, player, playerEvents, pPc, pSrc,
                   previous_duration, retired, bufVars, rdVars, histVars,
                   download_called, download_completed, total_bytes,
                   downloaded_bytes, callback, events, tPc, tItem, lock>>

ProbeNext ==
    \/ ProbeCall \/ ReadAcquire \/ ReadLoadCompleted \/ ReadLoadCancel
    \/ ReadWait \/ ReadSpuriousWake \/ ProbeOk \/ ProbeErr

NextLoadUrl == DownloadNext \/ TaskNext \/ ProbeNext

SpecLoadUrl == Init /\ [][NextLoadUrl]_vars

\* --------------------------------------------------------- claims over Spec
Threads == {"caller", "task", "reader"}

\* The task has run to an end: it returned, or the runtime dropped it.
TaskEnded == tPc \in {"done", "exit_abort", "exit_error", "cancelled"}

\* The mutexes a thread holds.
HeldBy(t) == {l \in Locks : lock[l] = t}

\* The mutexes the next step of a thread has to take.
Wants(t) ==
    CASE t = "caller" ->
           CASE cPc \in {"dl_status", "dl_send", "cl_drop"} -> {"status"}
             [] cPc \in {"dl_fail_cb", "dl_header_cb"} -> {"callback"}
             [] cPc = "dl_capacity" -> {"data", "chunks"}
             [] cPc \in {"dl_handle", "abort_handle", "cl_drop_handle"} -> {"handle"}
             [] cPc = "dl_ok" -> {"control"}
             [] cPc = "loaded" -> {"status", "control"}
             [] OTHER -> {}
      [] t = "task" ->
           CASE tPc \in {"ab_status", "err_status", "fin_status"} -> {"status"}
             [] tPc \in {"ab_cb", "err_cb", "fin_cb"} -> {"callback"}
             [] tPc \in {"append_lock", "complete"} -> {"data"}
             [] tPc = "append_data" ->
                  IF AppendLocks(chunk_size, current_chunk, completed, tItem.bytes)
                  THEN {"chunks"} ELSE {}
             [] tPc = "complete_push" ->
                  IF Len(current_chunk) > 0 THEN {"chunks"} ELSE {}
             [] OTHER -> {}
      [] t = "reader" ->
           IF rPc \in {"lock", "woken"} THEN {"chunks"} ELSE {}

\* The threads that hold a mutex thread t has to take.
BlockedOn(t) == {lock[l] : l \in Wants(t)} \ {"free"}

\* A set of threads each of which waits for a mutex held inside the set.
LockCycle ==
    \E S \in (SUBSET Threads) \ {{}} : \A t \in S : BlockedOn(t) \cap S # {}

\* C1 (reader cancellation): once clear() has returned and the download
\* task has ended, the reader is not blocked in the condvar wait.
C1_ReaderCancelled ==
    (cPc = "cleared" /\ TaskEnded) => rPc # "waiting"

\* C2 (completion wakes waiters): once the end-of-stream sequence of the
\* task has run (complete(), completed flag, notify_all, callback) the
\* reader is not blocked in the condvar wait.
C2_CompletionWakes ==
    (tPc = "done" /\ cPc = "loaded") => rPc # "waiting"

\* C6 (body-stream error): once the task has ended on a body-stream error
\* (status Aborted, Aborted emitted) the reader is not blocked in the condvar
\* wait: a read at the end of what was buffered returns 0.
C6_BodyErrorEOF ==
    (tPc = "exit_error" /\ cPc = "loaded") => rPc # "waiting"

\* A notify_all of the task is due: it stands between a push to the chunk
\* list and the notify_all that follows it.
NotifyDue ==
    tPc \in {"notify", "complete_store", "fin_status", "fin_flag", "fin_notify"}

\* C7 (no lost data wake-up): a reader is never in the condvar wait while
\* the chunk that holds its position is in the chunk list and no notify_all
\* is due; and a read that found its position below the produced bytes
\* returned a positive count.
C7_NoLostDataWakeup ==
    /\ (rPc = "waiting" /\ pos < Len(Flatten(data))) => NotifyDue
    /\ (rPc = "idle" /\ rRet.kind # "none" /\ rPos0 < rSeen.produced) =>
           (rRet.kind = "ok" /\ Len(rRet.bytes) >= 1)

\* A read that slept in the condvar wait and then returned bytes.
C7_Witness ==
    /\ rPc = "idle"
    /\ rWaited
    /\ ~cancelled
    /\ rRet.kind = "ok"
    /\ Len(rRet.bytes) >= 1

\* C8 (deadlock freedom): the task holds neither the data mutex nor the
\* chunk-list mutex when it calls notify_all; the reader holds the
\* chunk-list mutex and nothing else up to its condvar wait and nothing at
\* all while it sleeps; clear() holds no lock when it notifies; no thread
\* has to take a mutex it already holds; and no set of threads waits for
\* mutexes in a cycle.
C8_DeadlockFree ==
    /\ tPc \in {"notify", "fin_notify"} =>
           (lock["data"] # "task" /\ lock["chunks"] # "task")
    /\ rPc \in {"ld_completed", "ld_cancel", "wait"} => HeldBy("reader") = {"chunks"}
    /\ rPc = "waiting" => HeldBy("reader") = {}
    /\ cPc = "cl_notify" => HeldBy("caller") = {}
    /\ \A t \in Threads : Wants(t) \cap HeldBy(t) = {}
    /\ ~LockCycle

\* The three threads contend: the reader holds the chunk-list mutex, the
\* task holds the data mutex and needs the chunk-list mutex for its push,
\* and the caller holds the status mutex inside Drop for Downloader.
C8_Witness ==
    /\ lock["chunks"] = "reader"
    /\ tPc = "append_data"
    /\ "chunks" \in Wants("task")
    /\ lock["data"] = "task"
    /\ cPc = "cl_drop_handle"
    /\ lock["status"] = "caller"

\* C9 (status lifecycle): status only ever moves NotStarted -> Downloading
\* and Downloading -> Completed or Aborted; once Completed or Aborted it
\* does not change.
C9_StatusLifecycle ==
    [][status' # status =>
           \/ (status = "NotStarted" /\ status' = "Downloading")
           \/ (status = "Downloading" /\ status' \in {"Completed", "Aborted"})]_vars

\* C10 (Aborted on every incomplete end): when the task has ended without
\* completing (should_abort seen, body-stream error, or cancelled through
\* the join handle) the status is Aborted and the callback has received
\* Aborted.
C10_AbortedDelivered ==
    (callback /\ tPc \in {"exit_abort", "exit_error", "cancelled"}) =>
        /\ status = "Aborted"
        /\ \E i \in 1..Len(events) : events[i] = "Aborted"

\* ------------------------------------------------------- claims over SpecDl
\* The invocations of download() that got past the download_called check.
DownloadsProceeded ==
    {i \in 1..Len(hist) : hist[i].op = "download" /\ hist[i].ok}

\* An invocation of download() is made in this step.
DownloadInvoked ==
    /\ Len(hist') = Len(hist) + 1
    /\ hist'[Len(hist')].op = "download"

\* C11 (download at most once): at most one invocation of download() gets
\* past the check; an invocation made after another one panics in the step
\* that makes it, on the thread that makes it, and that step changes no
\* status, sends no request, stores no length, emits nothing and spawns no
\* task.
C11_DownloadOnce ==
    /\ [](Cardinality(DownloadsProceeded) <= 1)
    /\ [][(DownloadInvoked /\ Len(hist) >= 1) =>
              /\ ~hist'[Len(hist')].ok
              /\ IF hist'[Len(hist')].arg = "caller"
                 THEN cPc' = "panicked" /\ aPc' = aPc
                 ELSE aPc' = "panicked" /\ cPc' = cPc
              /\ UNCHANGED <<status, should_abort, download_completed,
                             thread_handle, total_bytes, downloaded_bytes,
                             events, taskVars, bufVars, reserved, seekVars, lateAppends, cbState, seqRead, lock>>]_vars

\* The second thread has called download() while the first invocation waits
\* for the response, and has panicked.
C11_Witness ==
    /\ aPc = "panicked"
    /\ cPc = "dl_send"
    /\ status = "Downloading"
    /\ Len(hist) = 2

C13_CompletionOrder ==
    /\ [](/\ tPc = "fin_status" => completed
          /\ tPc = "fin_flag" => (completed /\ status = "Completed")
          /\ tPc \in {"fin_notify", "fin_cb"} =>
                 (completed /\ status = "Completed" /\ download_completed))
    /\ [][(events' # events /\ events'[Len(events')] = "Completed") =>
              /\ completed
              /\ Flatten(data) = input
              /\ current_chunk = <<>>
              /\ status = "Completed"
              /\ status' = "Completed"
              /\ download_completed]_vars

\* Completed was delivered for a body whose last bytes were in the tail that
\* complete() pushed.
C13_Witness ==
    /\ tPc = "done"
    /\ Len(events) >= 1
    /\ events[Len(events)] = "Completed"
    /\ Len(data) >= 1
    /\ Len(data[Len(data)]) < chunk_size

\* The positions of HeaderReceived in the event log.
HeaderEvents == {i \in 1..Len(events) : events[i] = "HeaderReceived"}

\* C14 (HeaderReceived): with a callback set, HeaderReceived is delivered at
\* most once and is the first event; it has not been delivered while the
\* request is out or the length and the reservation are not yet made; it has
\* been delivered, with total_bytes stored and the chunk slots reserved for
\* it, once a task exists, a byte was appended or download() returned Ok.
C14_HeaderReceived ==
    /\ Cardinality(HeaderEvents) <= 1
    /\ HeaderEvents # {} => (1 \in HeaderEvents /\ callback)
    /\ HeaderEvents # {} =>
           (reserved >= 1 /\ reserved = SetCapacity(total_bytes, <<>>, chunk_size))
    /\ cPc \in {"new", "dl_status", "dl_send", "dl_capacity", "dl_header_cb",
                "dl_fail_cb", "dl_err"} => HeaderEvents = {}
    /\ (callback /\ (tPc # "none" \/ input # <<>> \/ data # <<>> \/ cPc = "dl_ok"))
           => HeaderEvents = {1}

\* download() returned Ok for a response with a Content-Length and the whole
\* body has arrived: HeaderReceived, then Completed.
C14_Witness ==
    /\ cPc = "dl_ok"
    /\ callback
    /\ events = <<"HeaderReceived", "Completed">>
    /\ total_bytes = NetBytes
    /\ Len(Flatten(data)) = NetBytes

\* --------------------------------------------------- claims over SpecPlayer
LoadOps == {"load_file", "load_reader", "load_source", "load_url"}

\* The last element of a non-empty sequence.
Last(q) == q[Len(q)]

\* What a step appended to the Player's event log.
AddedEvents == SubSeq(playerEvents', Len(playerEvents) + 1, Len(playerEvents'))

\* A call on the Player returns in this step (its entry enters the history).
Returns == Len(hist') = Len(hist) + 1

\* The number of times event is in the Player's event log.
CountEvent(event) ==
    Cardinality({i \in 1..Len(playerEvents) : playerEvents[i] = event})

\* C15 (load event order): LoadStart and the events of the clear that opens
\* a load come in the step that starts the load, LoadStart last; then, with
\* the duration written to the control and the source not yet in the sink,
\* DurationChange, LoadedMetadata, LoadedData are emitted in that order and
\* next to each other; and a load that returns Ok has emitted them and has
\* the source and the sentinel in the sink.
C15_LoadEventOrder ==
    /\ [](\A i \in 1..Len(playerEvents) :
              /\ playerEvents[i] = "LoadedMetadata" =>
                     /\ i > 1 /\ playerEvents[i - 1] = "DurationChange"
                     /\ i < Len(playerEvents) /\ playerEvents[i + 1] = "LoadedData"
              /\ playerEvents[i] = "LoadedData" =>
                     (i > 1 /\ playerEvents[i - 1] = "LoadedMetadata"))
    /\ [][(pPc = "idle" /\ pPc' = "load_duration") =>
              /\ SubSeq(playerEvents', 1, Len(playerEvents)) = playerEvents
              /\ \A i \in 1..Len(AddedEvents) :
                     /\ AddedEvents[i] \in {"Emptied", "DurationChange", "LoadStart"}
                     /\ AddedEvents[i] = "LoadStart" => i = Len(AddedEvents)
              /\ (pSrc'.op = "load_source" /\ player.callback) =>
                     (AddedEvents # <<>> /\ Last(AddedEvents) = "LoadStart")
              /\ pSrc'.op # "load_source" =>
                     \A i \in 1..Len(AddedEvents) : AddedEvents[i] # "LoadStart"]_vars
    /\ [][(playerEvents' # playerEvents /\ Last(playerEvents') = "LoadedData") =>
              /\ playerEvents' = playerEvents \o
                     <<"DurationChange", "LoadedMetadata", "LoadedData">>
              /\ player.control.duration = pSrc.total_duration
              /\ player.control.sink.queue = <<>>
              /\ ~player.control.sink.loaded]_vars
    /\ [][(Returns /\ Last(hist').op \in LoadOps /\ Last(hist').ok) =>
              /\ player'.control.sink.queue = <<"source", "sentinel">>
              /\ player'.control.duration = pSrc.total_duration
              /\ player.callback =>
                     /\ Len(playerEvents') >= 3
                     /\ SubSeq(playerEvents', Len(playerEvents') - 2,
                               Len(playerEvents')) =
                            <<"DurationChange", "LoadedMetadata", "LoadedData">>]_vars

\* set_callback, load_file of a file with a known duration, load_source:
\* the three load events, then Emptied and DurationChange of the clear, then
\* LoadStart, then the three load events.
C15_Witness ==
    /\ pPc = "idle"
    /\ Len(hist) = 3
    /\ Last(hist) = HistOp("load_source", "source", TRUE)
    /\ playerEvents = <<"DurationChange", "LoadedMetadata", "LoadedData",
                        "Emptied", "DurationChange", "LoadStart",
                        "DurationChange", "LoadedMetadata", "LoadedData">>

\* A step that runs clear(): stop, drop, or the head of a load.
ClearingStep ==
    /\ pPc = "idle"
    /\ \/ pPc' = "load_duration"
       \/ Returns /\ Last(hist').op \in LoadOps \cup {"stop", "drop"}

\* What clear() is to emit on the Player as it is: Emptied if it is not
\* empty, then DurationChange if its duration is known.
ClearExpected ==
    (IF player.callback /\ ~player.empty THEN <<"Emptied">> ELSE <<>>) \o
    (IF player.callback /\ player.control.duration # None
     THEN <<"DurationChange">> ELSE <<>>)

\* C16 (teardown events): a step that runs clear() emits Emptied exactly when
\* the player was not empty, then DurationChange exactly when the duration
\* was known, and of its own nothing else (a load may add LoadStart or Error
\* after them); an empty player has no duration, so clear() on it emits
\* nothing.
C16_TeardownEvents ==
    /\ [](player.empty => player.control.duration = None)
    /\ [][ClearingStep =>
              \E suffix \in {<<>>, <<"LoadStart">>, <<"Error">>} :
                  playerEvents' = playerEvents \o ClearExpected \o suffix]_vars
    /\ [][(ClearingStep /\ Returns /\ Last(hist').op \in {"stop", "drop"}) =>
              playerEvents' = playerEvents \o ClearExpected]_vars

\* stop() on a player with a callback and a source of known duration:
\* Emptied, then DurationChange.
C16_Witness ==
    /\ hist # <<>>
    /\ Last(hist).op = "stop"
    /\ Len(playerEvents) >= 2
    /\ SubSeq(playerEvents, Len(playerEvents) - 1, Len(playerEvents)) =
           <<"Emptied", "DurationChange">>

\* The state of the Player the idempotence claim compares.
PlayerView ==
    [empty |-> player.empty,
     ended |-> player.ended,
     duration |-> player.control.duration,
     paused |-> player.control.sink.paused,
     queue |-> player.control.sink.queue,
     autoplay |-> player.autoplay,
     loader |-> player.loader,
     condvar |-> player.condvar,
     cancellation_token |-> player.cancellation_token]

\* The state a single load_file(f) on a fresh player is to leave.
LoadedOnce(f) ==
    [empty |-> FALSE,
     ended |-> FALSE,
     duration |-> FileDuration(f),
     paused |-> TRUE,
     queue |-> <<"source", "sentinel">>,
     autoplay |-> FALSE,
     loader |-> FALSE,
     condvar |-> FALSE,
     cancellation_token |-> FALSE]

\* C17 (load_file twice): on a fresh player, with or without a callback set
\* first, load_file(f) and load_file(f); load_file(f) leave the same state;
\* with the callback set first the second sequence has emitted exactly one
\* Emptied and two LoadedMetadata.
C17_LoadTwice ==
    \A f \in {"a", "b"} :
        LET once == <<HistOp("load_file", f, TRUE)>>
            twice == once \o once
            setcb == <<HistOp("set_callback", "none", TRUE)>>
        IN /\ (pPc = "idle" /\ hist \in {once, twice, setcb \o once, setcb \o twice})
                  => PlayerView = LoadedOnce(f)
           /\ (pPc = "idle" /\ hist = setcb \o once) =>
                  (CountEvent("Emptied") = 0 /\ CountEvent("LoadedMetadata") = 1)
           /\ (pPc = "idle" /\ hist = setcb \o twice) =>
                  (CountEvent("Emptied") = 1 /\ CountEvent("LoadedMetadata") = 2)

\* set_callback, then load_file("a") twice.
C17_Witness ==
    /\ pPc = "idle"
    /\ hist = <<HistOp("set_callback", "none", TRUE),
                HistOp("load_file", "a", TRUE), HistOp("load_file", "a", TRUE)>>
    /\ CountEvent("Emptied") = 1

\* The latest of play() and pause() in a history, "none" when neither is.
Intent(h) ==
    LET idx == {i \in 1..Len(h) : h[i].op \in {"play", "pause"}} IN
    IF idx = {} THEN "none"
    ELSE h[CHOOSE i \in idx : \A j \in idx : j <= i].op

\* C18 (autoplay preservation): when a load has returned Ok the sink is
\* playing if the latest of play() and pause() before it was play(), and
\* paused if it was pause() or there was neither.
C18_AutoplayKept ==
    (pPc = "idle" /\ hist # <<>> /\ Last(hist).op \in LoadOps /\ Last(hist).ok) =>
        (player.control.sink.paused <=> Intent(hist) # "play")

\* play(), a load, and a second load that replaced the sink: it plays.
C18_Witness ==
    /\ pPc = "idle"
    /\ Len(hist) = 3
    /\ hist[1].op = "play"
    /\ hist[2].op \in LoadOps /\ hist[2].ok
    /\ hist[3].op \in LoadOps /\ hist[3].ok
    /\ ~player.control.sink.paused

\* C19 (ended on drain): once the sink has reached the sentinel of the
\* loaded source, ended is true, whether or not a callback is set.
C19_EndedOnSentinel ==
    player.control.sink.reached => player.ended

\* C20 (empty flag): between calls, empty is true exactly when no source was
\* loaded into the current sink; it is true on a new player, after stop()
\* and after a load that failed, and false after a load that returned Ok.
C20_EmptyFlag ==
    pPc \in {"idle", "dropped"} =>
        /\ player.empty <=> ~player.control.sink.loaded
        /\ hist = <<>> => player.empty
        /\ hist # <<>> =>
               /\ Last(hist).op \in {"stop", "drop"} => player.empty
               /\ (Last(hist).op \in LoadOps /\ ~Last(hist).ok) => player.empty
               /\ (Last(hist).op \in LoadOps /\ Last(hist).ok) => ~player.empty

\* A load that failed on a player that held a source: the player is empty.
C20_Witness ==
    /\ pPc = "idle"
    /\ Len(hist) >= 2
    /\ Last(hist).op \in LoadOps /\ ~Last(hist).ok
    /\ hist[Len(hist) - 1].op \in LoadOps /\ hist[Len(hist) - 1].ok
    /\ player.empty
    /\ ~player.control.sink.loaded

\* What the call history says the Player holds: the last load, stop or drop.
RECURSIVE CurrentSource(_)
CurrentSource(h) ==
    IF h = <<>> THEN HistOp("none", "none", FALSE)
    ELSE IF Last(h).op \in LoadOps \cup {"stop", "drop"} THEN Last(h)
    ELSE CurrentSource(SubSeq(h, 1, Len(h) - 1))

\* C21 (at most one active source): between calls the Player's downloader,
\* condvar and token are all present or all absent; they are present exactly
\* when the source it holds came from a load_url that returned Ok, and then
\* they are those of that source (the Downloader is downloading with its
\* handle stored, its token is not cancelled); when they are absent the last
\* Downloader was dropped and aborted and a token that was kept is
\* cancelled; and every pipeline a load_url replaced was dropped, aborted,
\* cancelled and notified before the new one was made.
C21_OneActiveSource ==
    /\ pPc \in {"idle", "dropped"} =>
           /\ player.loader = player.condvar
           /\ player.loader = player.cancellation_token
           /\ player.loader <=>
                  (CurrentSource(hist).op = "load_url" /\ CurrentSource(hist).ok)
           /\ player.loader =>
                  /\ ~player.empty
                  /\ download_called /\ thread_handle /\ ~should_abort
                  /\ status = "Downloading"
                  /\ ~cancelled
           /\ (~player.loader /\ download_called) =>
                  (should_abort /\ ~thread_handle /\ status = "Aborted")
           /\ (~player.loader /\ cPc = "loaded") => cancelled
    /\ \A i \in 1..Len(retired) :
           /\ retired[i].should_abort
           /\ ~retired[i].thread_handle
           /\ retired[i].status = "Aborted"
           /\ retired[i].cancelled
           /\ retired[i].notified

\* load_url, load_url, load_file: the first URL source was replaced by the
\* second, the second by a file; the Player holds no pipeline.
C21_Witness ==
    /\ pPc = "idle"
    /\ Len(hist) = 3
    /\ hist[1] = HistOp("load_url", "ok", TRUE)
    /\ hist[2] = HistOp("load_url", "ok", TRUE)
    /\ hist[3].op = "load_file" /\ hist[3].ok
    /\ Len(retired) = 1
    /\ ~player.loader
    /\ cancelled

\* event is among what a step appended to the Player's event log.
Added(event) == \E i \in 1..Len(AddedEvents) : AddedEvents[i] = event

\* C22 (cached duration): the cached duration is None whenever the player is
\* empty; with a callback set, a step that changes the cached duration emits
\* DurationChange itself (clear) or is the duration write of load(), whose
\* call cannot return before its next step, which emits DurationChange.
C22_DurationChange ==
    /\ [](player.empty => player.control.duration = None)
    /\ [][(player'.control.duration # player.control.duration /\ player.callback) =>
              \/ Added("DurationChange")
              \/ (pPc = "load_duration" /\ pPc' = "load_emit")]_vars
    /\ [][(pPc = "load_emit" /\ pPc' # pPc) =>
              /\ pPc' = "load_append"
              /\ ~Returns
              /\ player.callback =>
                     (AddedEvents # <<>> /\ AddedEvents[1] = "DurationChange")]_vars

\* With a callback set, a file with a known duration was replaced by one
\* without: the duration went None, Some, None, None and DurationChange was
\* emitted by the first load, by the clear and by the second load.
C22_Witness ==
    /\ pPc = "idle"
    /\ hist = <<HistOp("set_callback", "none", TRUE),
                HistOp("load_file", "a", TRUE), HistOp("load_file", "b", TRUE)>>
    /\ player.control.duration = None
    /\ ~player.empty
    /\ CountEvent("DurationChange") = 3

\* The positions of the log at which event was emitted.
EventsAt(event) == {i \in 1..Len(playerEvents) : playerEvents[i] = event}

\* C23 (seek events): seek emits Seeking, and nothing else, before it calls
\* the sink; when the sink's seek returned Ok it emits Seeked and returns
\* Ok; when the sink's seek failed it returns the error and emits nothing.
C23_SeekEvents ==
    /\ [][(pPc = "idle" /\ pPc' = "seek_call") =>
              /\ player' = player
              /\ ~Returns
              /\ AddedEvents = IF player.callback THEN <<"Seeking">> ELSE <<>>]_vars
    /\ []((pPc = "seek_call" /\ player.callback) =>
              /\ EventsAt("Seeking") # {}
              /\ \A i \in EventsAt("Seeked") :
                     \E j \in EventsAt("Seeking") : j > i)
    /\ [][(pPc = "seek_call" /\ pPc' = "idle") =>
              /\ Returns
              /\ Last(hist').op = "seek"
              /\ player'.control.sink.seek \in SeekResults
              /\ Last(hist').ok <=> (player'.control.sink.seek = "Ok")
              /\ AddedEvents = IF Last(hist').ok /\ player.callback
                               THEN <<"Seeked">> ELSE <<>>]_vars

\* With a callback set, a seek that succeeded and then one that failed:
\* Seeking, Seeked, Seeking.
C23_Witness ==
    /\ pPc = "idle"
    /\ hist = <<HistOp("set_callback", "none", TRUE),
                HistOp("seek", "none", TRUE), HistOp("seek", "none", FALSE)>>
    /\ playerEvents = <<"Seeking", "Seeked", "Seeking">>
    /\ player.control.sink.seek = "Err"

\* C24 (failed download request): a load_url whose request fails returns Err
\* in the step that makes it: it emits what clear() emits on the player as
\* it was (Emptied when it held a source), then Error, and none of
\* DurationChange / LoadedMetadata / LoadedData of a load; it leaves the
\* player empty, with a new unloaded sink, no duration, no downloader, no
\* condvar and no token, and the Downloader it made aborted.
C24_DownloadFailed ==
    [][(Returns /\ Last(hist') = HistOp("load_url", "send_err", FALSE)) =>
          /\ playerEvents' = playerEvents \o ClearExpected \o
                 (IF player.callback THEN <<"Error">> ELSE <<>>)
          /\ pPc' = "idle"
          /\ player'.empty
          /\ ~player'.loader /\ ~player'.condvar /\ ~player'.cancellation_token
          /\ player'.control.duration = None
          /\ player'.control.sink.queue = <<>>
          /\ ~player'.control.sink.loaded
          /\ status' = "Aborted" /\ ~thread_handle' /\ tPc' = "none"]_vars

\* With a callback set, a file of unknown duration was loaded and a load_url
\* failed on its request: the log ends with Emptied, Error.
C24_Witness ==
    /\ pPc = "idle"
    /\ hist = <<HistOp("set_callback", "none", TRUE),
                HistOp("load_file", "b", TRUE),
                HistOp("load_url", "send_err", FALSE)>>
    /\ playerEvents = <<"DurationChange", "LoadedMetadata", "LoadedData",
                        "Emptied", "Error">>
    /\ player.empty

\* ----------------------------------------------- claims over SpecTeardown
\* The caller is inside clear(), past the replacement of the sink.
InClear ==
    cPc \in {"cl_release", "cl_drop", "cl_drop_handle", "cl_cancel", "cl_notify",
             "cl_flags"}

\* C25 (teardown liveness): a clear() that was started on a URL source
\* returns, whatever the reader does and whether or not the body stream
\* ever yields again: the only thing it waits for is the status mutex, which
\* the task holds over no await and not beyond its end.
C25_TeardownReturns ==
    /\ InClear ~> (cPc = "cleared")
    /\ [](\A l \in Locks :
              lock[l] = "task" => (tPc \notin {"none", "await"} /\ ~TaskEnded))

\* clear() has returned while the reader sleeps in the condvar wait and the
\* task is still suspended on the body stream.
C25_Witness ==
    /\ cPc = "cleared"
    /\ rPc = "waiting"
    /\ tPc = "await"

\* ------------------------------------------------ claims over SpecLoadUrl
\* C26 (load_url does not block on the body): once download() has returned
\* Ok, the caller is not asleep in a read of Decoder::new with the task at
\* its end, that is, with nothing left that would wake it.
C26_LoadUrlReturns ==
    (cPc = "dl_ok" /\ rPc = "waiting") => ~TaskEnded

\* C30 (cancel, then notify, with no lock held): when clear() calls
\* notify_all the token is already cancelled and the control write lock
\* (like every other lock clear() took) is released; the notification wakes
\* the sleeping reader; the token never goes back; so a reader that looks at
\* the token from clear()'s notification on finds it cancelled and returns
\* Ok(0) instead of going back to sleep.
C30_CancelBeforeNotify ==
    /\ [](cPc = "cl_release" => (lock["control"] = "caller" /\ ~cancelled))
    /\ [](cPc \in {"cl_notify", "cl_flags", "cleared"} =>
             (cancelled /\ HeldBy("caller") = {}))
    /\ [][(cPc = "cl_notify" /\ cPc' = "cl_flags") =>
             /\ cancelled /\ cancelled'
             /\ lock["control"] = "free"
             /\ rPc = "waiting" => rPc' = "woken"
          ]_vars
    /\ [][cancelled => cancelled']_vars
    /\ [][(rPc = "ld_cancel" /\ rPc' # rPc /\ cPc \in {"cl_notify", "cl_flags", "cleared"}) =>
             (rPc' = "idle" /\ rRet' = [kind |-> "ok", bytes |-> <<>>])
          ]_vars

\* clear() has returned; the reader slept, was woken, found no data at its
\* position and the download not completed, and returned Ok(0) on the token.
C30_Witness ==
    /\ cPc = "cleared"
    /\ cancelled
    /\ rPc = "idle"
    /\ rWaited
    /\ rRet = [kind |-> "ok", bytes |-> <<>>]
    /\ ~rSeen.completed
    /\ lock["control"] = "free"

\* ------------------------------------------------- chunk shape (SpecBuf)
\* The last chunk of the chunk list is shorter than chunk_size.
LastShort == Len(data) > 0 /\ Len(data[Len(data)]) < chunk_size

BufReadBlock ==
    \E n \in 1..MaxRead :
        /\ rPc = "idle"
        /\ ReadOutcome(data, chunk_size, completed, cancelled, pos, n).kind = "block"
        /\ rN' = n
        /\ rPos0' = pos
        /\ rSeen' = Seen(data, completed)
        /\ rRet' = NoRet
        /\ rPc' = "waiting"
        /\ lastOp' = "read_wait"
        /\ UNCHANGED <<extVars, bufVars, pos, cancelled, rWaited, input, pipeVars>>

\* The sleeping read is notified, evaluates its loop again and returns
BufReadResume ==
    LET r == ReadOutcome(data, chunk_size, completed, cancelled, pos, rN) IN
    /\ rPc = "waiting"
    /\ r.kind # "block"
    /\ rSeen' = Seen(data, completed)
    /\ rRet' = r
    /\ pos' = pos + Len(r.bytes)
    /\ rPc' = IF r.kind = "panic" THEN "panicked" ELSE "idle"
    /\ lastOp' = "read_woken"
    /\ UNCHANGED <<extVars, bufVars, cancelled, rN, rPos0, rWaited, input, pipeVars>>

NextBufWait == NextBuf \/ BufReadBlock \/ BufReadResume

SpecBufWait == InitBuf /\ [][NextBufWait]_vars

\* What read(buf) with buf.len() = n would do now at the reader's position.
ReadNow(n) == ReadOutcome(data, chunk_size, completed, cancelled, pos, n)

\* C32 (the tail is not readable): a read with a non-empty destination at
\* a position whose chunk is not in the chunk list waits as long as the
\* buffer is not completed, whether or not the tail holds the byte; no read
\* returns a byte that is not in the chunk list; once the byte at the
\* position is in the chunk list the read (a new one or the sleeping one)
\* returns a positive count of the bytes from there; and on a completed
\* buffer a read below the end of the input returns bytes up to the end,
\* the short last chunk included, and a read at the end returns 0.
C32_TailNotReadable ==
    /\ (rPc = "idle" /\ ~completed /\ pos >= Len(Flatten(data))) =>
           \A n \in 1..MaxRead : ReadNow(n).kind = "block"
    /\ (rPc = "waiting" /\ ~completed /\ pos >= Len(Flatten(data))) =>
           ReadNow(rN).kind = "block"
    /\ (lastOp \in {"read", "read_woken"} /\ rRet.kind = "ok" /\ Len(rRet.bytes) > 0) =>
           /\ rPos0 + Len(rRet.bytes) <= rSeen.produced
           /\ rRet.bytes = SubSeq(input, rPos0 + 1, rPos0 + Len(rRet.bytes))
    /\ (lastOp = "read_woken" /\ rPos0 < rSeen.produced) =>
           (rRet.kind = "ok" /\ Len(rRet.bytes) \in 1..rN)
    /\ (rPc \in {"idle", "waiting"} /\ pos < Len(Flatten(data))) =>
           \A n \in 1..MaxRead :
               /\ ReadNow(n).kind = "ok"
               /\ Len(ReadNow(n).bytes) \in 1..n
    /\ (rPc = "idle" /\ completed /\ pos < Len(input)) =>
           \A n \in 1..MaxRead :
               ReadNow(n).bytes = SubSeq(input, pos + 1, pos + Len(ReadNow(n).bytes))
    /\ (rPc \in {"idle", "waiting"} /\ completed /\ pos = Len(input)) =>
           \A n \in 1..MaxRead : ReadNow(n) = [kind |-> "ok", bytes |-> <<>>]

\* A read sleeps at a position whose byte is already in the tail, behind
\* one chunk of the list.
C32_Witness ==
    /\ rPc = "waiting"
    /\ ~completed
    /\ Len(data) >= 1
    /\ pos >= Len(Flatten(data))
    /\ pos < Len(input)
    /\ Len(current_chunk) > pos - Len(Flatten(data))

\* ------------------------------------------------ abort and the task (Spec)
\* C33 (abort within one chunk): the task appends at most one network chunk
\* after abort() has returned or the Downloader was dropped; the flag stays
\* set; and when the task looks at the flag after that it leaves the loop
\* without appending.
C33_AbortWithinOneChunk ==
    /\ [](lateAppends <= 1)
    /\ [][AbortReturned => AbortReturned' \/ cPc' = "cl_drop_handle"]_vars
    /\ [][(AbortReturned /\ tPc = "chk_abort" /\ tPc' # tPc) => tPc' = "ab_status"]_vars
    /\ [](tPc \in {"ab_status", "ab_cb", "exit_abort"} => should_abort)

\* abort() returned while the task stood between its check and its append;
\* the task appended that chunk, took the next one, saw the flag and left.
C33_Witness ==
    /\ lateAppends = 1
    /\ tPc = "exit_abort"
    /\ status = "Aborted"
    /\ Len(input) >= 1

\* C34 (no-op after complete): once completed is true no append_data and no
\* further complete() changes the chunk list, the tail or the flag.
C34_CompletedFrozen ==
    [][completed =>
          /\ data' = data
          /\ current_chunk' = current_chunk
          /\ completed'
          /\ input' = input
      ]_vars

\* An append_data was called on a completed buffer that holds chunks.
C34_Witness ==
    /\ completed
    /\ lastOp = "append"
    /\ Len(data) >= 2
    /\ current_chunk = <<>>
    /\ Flatten(data) = input

\* ============================================================ SpecCallback
\* The callback slots of the Player (Arc<RwLock<Option<Box<dyn Fn>>>>), the
\* thread that owns the Player, the audio thread that reaches the sentinel
\* and the download task that reports loader events. An invocation holds the
\* read guard of its slot from the moment the slot is read until the
\* callback has returned.
cbKept ==
    <<reserved, apiVars, playerVars, seekVars, lateAppends, seqRead, bufVars,
      rdVars, histVars, pipeVars>>

\* The slot a thread's invocations read.
SlotOf(t) == IF t = "task" THEN "loader_callback" ELSE "callback"

\* `if let Some(ref cb) = *slot.read().unwrap() { cb(event) }` up to the
\* call of cb: the invocation is in flight on the callback the slot holds
Invoke(c, t, event, appended_at) ==
    LET s == SlotOf(t) IN
    IF c.slot[s] = 0 THEN c
    ELSE [c EXCEPT !.run[t] = [cb |-> c.slot[s], event |-> event],
                   !.deliveries = @ + 1,
                   !.last = [slot |-> s, event |-> event, cb |-> c.slot[s],
                             appended_at |-> appended_at]]

\* set_callback(f) / set_loader_callback(f) by the owner, outside of any
\* callback: the write lock waits for the read guards of the slot
CbSet ==
    \E s \in Slots :
        /\ cbState.sets < MaxSets
        /\ cbState.run["owner"] = NoRun
        /\ \A t \in Emitters : SlotOf(t) = s => cbState.run[t] = NoRun
        /\ cbState' = [cbState EXCEPT !.slot[s] = cbState.sets + 1,
                                      !.sets = @ + 1]
        /\ UNCHANGED cbKept

\* emit(event) on the owner thread
CbEmit ==
    /\ cbState.run["owner"] = NoRun
    /\ cbState.deliveries < MaxDeliveries
    /\ cbState.slot["callback"] # 0
    /\ cbState' = Invoke(cbState, "owner", "Play", 0)
    /\ UNCHANGED cbKept

\* The closure load_url gives the Downloader, run by the download task
CbLoaderEvent ==
    /\ cbState.run["task"] = NoRun
    /\ cbState.deliveries < MaxDeliveries
    /\ cbState.slot["loader_callback"] # 0
    /\ cbState' = Invoke(cbState, "task", "Loader", 0)
    /\ UNCHANGED cbKept

\* load(): the sentinel is appended to the sink; its closure holds a clone
\* of the slot's Arc (sentinel records what the slot held at that moment)
CbAppendSentinel ==
    /\ cbState.run["owner"] = NoRun
    /\ cbState.sentinel = -1
    /\ cbState' = [cbState EXCEPT !.sentinel = cbState.slot["callback"]]
    /\ UNCHANGED cbKept

\* The sentinel with the callback of the moment it was appended.
CbSentinelCaptured ==
    /\ cbState.run["audio"] = NoRun
    /\ cbState.sentinel >= 0
    /\ cbState.deliveries < MaxDeliveries
    /\ cbState' =
           IF cbState.sentinel = 0 THEN [cbState EXCEPT !.sentinel = -1]
           ELSE [cbState EXCEPT
                    !.run["audio"] = [cb |-> cbState.sentinel, event |-> "Ended"],
                    !.deliveries = @ + 1,
                    !.last = [slot |-> "callback", event |-> "Ended",
                              cb |-> cbState.sentinel,
                              appended_at |-> cbState.sentinel],
                    !.ended = TRUE,
                    !.sentinel = -1]
    /\ UNCHANGED cbKept

\* The audio thread reaches the sentinel: the closure reads the slot, and
\* with a callback in it stores ended and calls it with Ended
CbSentinel ==
    /\ cbState.run["audio"] = NoRun
    /\ cbState.sentinel >= 0
    /\ cbState.deliveries < MaxDeliveries
    /\ cbState' =
           [Invoke(cbState, "audio", "Ended", cbState.sentinel) EXCEPT
               !.ended = (cbState.ended \/ cbState.slot["callback"] # 0),
               !.sentinel = -1]
    /\ UNCHANGED cbKept

\* A callback returns and the read guard is dropped
CbReturn ==
    \E t \in Emitters :
        /\ cbState.run[t] # NoRun
        /\ cbState' = [cbState EXCEPT !.run[t] = NoRun]
        /\ UNCHANGED cbKept

NextCallback ==
    \/ CbSet \/ CbEmit \/ CbLoaderEvent \/ CbAppendSentinel \/ CbSentinel
    \/ CbReturn

SpecCallback == InitPl /\ [][NextCallback]_vars

\* C35 (callback replacement): an invocation in flight is on the callback
\* its slot holds, so a slot is never replaced under an invocation and the
\* invocation ends on the callback it began on; an event delivered once a
\* replacement has returned goes to the callback the slot holds then, the
\* Ended of a sentinel appended before the replacement included; and a
\* replacement changes nothing but the slot.
C35_CallbackReplaced ==
    /\ [](\A t \in Emitters :
             cbState.run[t] # NoRun =>
                 (cbState.run[t].cb # 0 /\ cbState.run[t].cb = cbState.slot[SlotOf(t)]))
    /\ [][cbState'.deliveries > cbState.deliveries =>
             /\ cbState'.last.cb # 0
             /\ cbState'.last.cb = cbState.slot[cbState'.last.slot]
             /\ cbState'.slot = cbState.slot
          ]_vars
    /\ [][cbState'.slot # cbState.slot =>
             /\ \E s \in Slots :
                    /\ cbState'.slot = [cbState.slot EXCEPT ![s] = cbState'.sets]
                    /\ \A t \in Emitters : SlotOf(t) = s => cbState.run[t] = NoRun
             /\ cbState'.run = cbState.run
             /\ cbState'.last = cbState.last
             /\ cbState'.sentinel = cbState.sentinel
          ]_vars
    /\ [][\A t \in Emitters :
             (cbState.run[t] # NoRun /\ cbState'.run[t] # cbState.run[t]) =>
                 cbState'.run[t] = NoRun
          ]_vars

\* The sentinel was appended while the first callback was installed; the
\* second was installed before the sink reached it; Ended is being
\* delivered to the second.
C35_Witness ==
    /\ cbState.last = [slot |-> "callback", event |-> "Ended", cb |-> 2,
                       appended_at |-> 1]
    /\ cbState.run["audio"] = [cb |-> 2, event |-> "Ended"]
    /\ cbState.ended


\* ---------------------------------------------------------------------- C36
\* The step of load_url that builds the new wrapper, Downloader and reader.
NewSourceStep ==
    /\ pPc = "idle"
    /\ data' = <<>> /\ pos' = 0 /\ ~completed'
    /\ cPc' \in {"dl_err", "dl_ok"}

\* C36: cancellation is one-shot and per source. The token of a cleared
\* source is cancelled and its record never changes afterwards; a cancelled
\* token is left only for the fresh token of a new load_url; a token is
\* cancelled only by the clear() of the Player that still holds it, so a
\* clear() with no token held changes nothing; and the token the Player
\* holds for the loaded source is not cancelled, so a read on that source
\* does what it would do with no cancellation at all.
C36_TokenPerSource ==
    /\ [](\A i \in 1..Len(retired) : retired[i].cancelled)
    /\ [][Len(retired') >= Len(retired)
           /\ SubSeq(retired', 1, Len(retired)) = retired]_vars
    /\ [][(cancelled /\ ~cancelled') => NewSourceStep]_vars
    /\ [][(~cancelled /\ cancelled') => player.cancellation_token]_vars
    /\ [][NewSourceStep => ~cancelled']_vars
    /\ [](player.cancellation_token =>
            /\ ~cancelled
            /\ \A n \in 1..PipeRead :
                   ReadOutcome(data, chunk_size, completed, cancelled, pos, n)
                       = ReadOutcome(data, chunk_size, completed, FALSE, pos, n))

\* A URL source was cleared by a second load_url: its token is cancelled, the
\* Player holds the token of the new source, and a read on the new source
\* waits for data.
C36_Witness ==
    /\ Len(retired) >= 1
    /\ retired[1].cancelled
    /\ player.cancellation_token
    /\ ~cancelled
    /\ ReadOutcome(data, chunk_size, completed, cancelled, pos, 1).kind = "block"


\* ============================================================ SpecPlayerVol
\* SpecPlayer with set_volume among the calls.
\* The volumes set_volume is called with
Volumes == {"half", "full"}

\* set_volume(volume): sink.set_volume(volume), VolumeChange
SetVolume ==
    \E volume \in Volumes :
        /\ CanCall
        /\ player' = [player EXCEPT !.control.sink.volume = volume]
        /\ playerEvents' = EmitPlayer(player, playerEvents, "VolumeChange")
        /\ hist' = Append(hist, HistOp("set_volume", "none", TRUE))
        /\ UNCHANGED <<pPc, pSrc, previous_duration, retired, reserved, seekVars,
                       lateAppends, cbState, seqRead, apiVars, bufVars, rdVars, histVars,
                       pipeVars>>

NextPlVol == NextPl \/ SetVolume

SpecPlayerVol == InitPl /\ [][NextPlVol]_vars

\* PlaybackControl::paused for Player
Paused(p) == p.control.sink.paused

\* C37: in every state of a sequence of Player calls paused() is the
\* negation of autoplay; autoplay changes only in a step of play() or
\* pause(); and the sink clear() would build from the state, like the sink
\* of every step that replaces a loaded sink, is a new sink that is paused
\* exactly when autoplay is false.
C37_PausedIsNotAutoplay ==
    /\ [](Paused(player) = ~player.autoplay)
    /\ [][player'.autoplay # player.autoplay =>
             /\ Len(hist') = Len(hist) + 1
             /\ hist'[Len(hist')].op \in {"play", "pause"}]_vars
    /\ [](Clear(player, playerEvents).player.control.sink
             = NewSink(~player.autoplay))
    /\ [][(player.control.sink.loaded /\ ~player'.control.sink.loaded)
           => /\ player'.control.sink = NewSink(~player.autoplay)
              /\ player'.autoplay = player.autoplay]_vars

\* play(), set_volume, then stop(): the sink clear() rebuilt plays, autoplay
\* being set.
C37_Witness ==
    /\ Len(hist) = 3
    /\ hist[1].op = "play"
    /\ hist[2].op = "set_volume"
    /\ hist[3].op = "stop"
    /\ player.autoplay
    /\ ~Paused(player)
    /\ player.control.sink = NewSink(FALSE)


\* ---------------------------------------------------------------------- C38
\* DownloadEvent::Completed and DownloadEvent::Aborted end a download.
Terminal(ev) == ev \in {"Completed", "Aborted"}

\* C38: among the events a Downloader has delivered at most one is terminal
\* (Completed or Aborted), it is the last one delivered, and the events
\* delivered are never taken back: whatever abort() and the drop of the
\* Downloader do while the task runs, no event follows a terminal event.
C38_OneTerminalEvent ==
    /\ [](\A i \in 1..Len(events) : Terminal(events[i]) => i = Len(events))
    /\ [][events' # events =>
             /\ Len(events') = Len(events) + 1
             /\ SubSeq(events', 1, Len(events)) = events
             /\ (events # <<>> => ~Terminal(events[Len(events)]))]_vars

\* The task delivered Completed, and afterwards the Downloader was dropped by
\* clear(): its flag is set, its status is Aborted, and Completed is still the
\* last event.
C38_Witness ==
    /\ events # <<>>
    /\ events[Len(events)] = "Completed"
    /\ should_abort
    /\ status = "Aborted"
    /\ cPc \notin {"cl_drop", "cl_drop_handle"}


\* ---------------------------------------------------------------------- C39
\* C39 (negative seek target): on either reader seek(Current(d)) at position
\* p with p + d < 0 returns an error and leaves the position at p, so the
\* position never becomes the large unsigned value a negative sum casts to.
C39_NegativeSeekRejected ==
    (lastOp = "seek" /\ seekCall.from = "Current"
     /\ seekCall.pos + seekCall.arg < 0) =>
        /\ seekRet.kind \notin {"Ok", "panic"}
        /\ pos = seekCall.pos


\* ================================================================ SpecEquiv
\* An MVecU8Wrapper and an MVecBytesWrapper are handed the same slices and
\* completed together; an MVecU8Reader and an MVecBytesReader read them from
\* position 0 without seeking, each with buffers of its own sizes, the calls
\* being those that return (a read that would wait is made later).
\* MVecU8Wrapper::append_data with the Vec replaced by the slice.
U8AppendDataReplace(vec, slice) == slice

\* MVecU8Wrapper::append_data: data_lock.extend_from_slice(slice)
U8AppendData(vec, slice) == vec \o slice

\* MVecU8Reader::read(buf) with buf.len() = n at position p when no other
\* thread runs: "block" is the condvar wait that nothing would end
U8ReadOutcome(vec, comp, canc, p, n) ==
    IF p >= Len(vec)
    THEN IF comp \/ canc
         THEN [kind |-> "ok", bytes |-> <<>>]
         ELSE [kind |-> "block", bytes |-> <<>>]
    ELSE LET len == Min(Len(vec) - p, n) IN
         [kind |-> "ok", bytes |-> Slice(vec, p, p + len)]

\* append_data(slice) on both wrappers, before complete()
EqAppend ==
    \E len \in 0..MaxSlice :
        /\ ~completed
        /\ Len(input) + len <= MaxBytes
        /\ LET slice == StreamBytes(Len(input), len)
               r == AppendData(chunk_size, data, current_chunk, completed, slice)
           IN /\ data' = r.data
              /\ current_chunk' = r.current_chunk
              /\ input' = input \o slice
              /\ seqRead' = [seqRead EXCEPT
                                !.data = U8AppendData(seqRead.data, slice)]
        /\ lastOp' = "append"
        /\ UNCHANGED <<reserved, apiVars, playerVars, seekVars, lateAppends,
                       cbState, chunk_size, completed, rdVars, pipeVars>>

\* complete() on both wrappers: MVecU8Wrapper stores the flag,
\* MVecBytesWrapper pushes its tail and stores the flag
EqComplete ==
    /\ ~completed
    /\ LET r == CompletePush(data, current_chunk) IN
          /\ data' = r.data
          /\ current_chunk' = r.current_chunk
    /\ completed' = TRUE
    /\ seqRead' = [seqRead EXCEPT !.completed = TRUE]
    /\ lastOp' = "complete"
    /\ UNCHANGED <<reserved, apiVars, playerVars, seekVars, lateAppends,
                   cbState, chunk_size, rdVars, input, pipeVars>>

\* MVecBytesReader::read(buf), buf.len() = n >= 1, until its first Ok(0)
EqReadBytes ==
    \E n \in 1..MaxRead :
        LET r == ReadOutcome(data, chunk_size, completed, cancelled, pos, n) IN
        /\ rPc = "idle"
        /\ ~seqRead.bytesEof
        /\ r.kind # "block"
        /\ rN' = n
        /\ rPos0' = pos
        /\ rSeen' = Seen(data, completed)
        /\ rRet' = r
        /\ pos' = pos + Len(r.bytes)
        /\ rPc' = IF r.kind = "panic" THEN "panicked" ELSE "idle"
        /\ seqRead' = [seqRead EXCEPT
                          !.bytesOut = seqRead.bytesOut \o r.bytes,
                          !.bytesEof = (r.kind = "ok" /\ r.bytes = <<>>)]
        /\ lastOp' = "read"
        /\ UNCHANGED <<reserved, apiVars, playerVars, seekVars, lateAppends,
                       cbState, bufVars, cancelled, rWaited, input, pipeVars>>

\* MVecU8Reader::read(buf), buf.len() = n >= 1, until its first Ok(0)
EqReadU8 ==
    \E n \in 1..MaxRead :
        LET r == U8ReadOutcome(seqRead.data, seqRead.completed,
                               seqRead.cancelled, seqRead.pos, n) IN
        /\ ~seqRead.eof
        /\ r.kind # "block"
        /\ seqRead' = [seqRead EXCEPT
                          !.pos = seqRead.pos + Len(r.bytes),
                          !.ret = r,
                          !.out = seqRead.out \o r.bytes,
                          !.eof = (r.bytes = <<>>)]
        /\ lastOp' = "read_u8"
        /\ UNCHANGED <<reserved, apiVars, playerVars, seekVars, lateAppends,
                       cbState, bufVars, rdVars, input, pipeVars>>

NextEquiv == EqAppend \/ EqComplete \/ EqReadBytes \/ EqReadU8

SpecEquiv == InitBuf /\ [][NextEquiv]_vars

\* C40 (reader equivalence): no sequential read of either reader panics;
\* what either reader has returned so far is a prefix of the bytes appended;
\* a reader returns 0 only after complete(); and when a reader has returned
\* 0 the bytes it returned before are the whole input, so the two readers
\* return the same bytes, whatever chunk_size and whatever buffer sizes.
C40_ReadersEquivalent ==
    /\ rPc # "panicked"
    /\ seqRead.out = SubSeq(input, 1, Len(seqRead.out))
    /\ seqRead.bytesOut = SubSeq(input, 1, Len(seqRead.bytesOut))
    /\ seqRead.eof => (completed /\ seqRead.out = input)
    /\ seqRead.bytesEof => (completed /\ seqRead.bytesOut = input)
    /\ (seqRead.eof /\ seqRead.bytesEof) => seqRead.out = seqRead.bytesOut

\* Both readers have reached their first 0 on an input of five bytes held
\* in chunks of two with a short last chunk, the chunked reader after a read
\* that crossed a chunk boundary.
C40_Witness ==
    /\ seqRead.eof /\ seqRead.bytesEof
    /\ chunk_size = 2
    /\ Len(input) = 5
    /\ Len(data) = 3
    /\ seqRead.out = input
    /\ seqRead.bytesOut = input
====
